---- MODULE Spec2Model ----
(***************************************************************************)
(* Model of the perceive-decide-act pipeline of llm-infer-oni:             *)
(*   - base/middleware.py   Middleware, MiddlewareManager                  *)
(*   - core/ui_agent.py     UIAgent.run / step / stop, should_stop         *)
(*   - middlewares/state_tracking.py  StateTrackingMiddleware              *)
(* Two specifications are defined: SpecMgr drives the MiddlewareManager    *)
(* alone with arbitrary chains and inputs, Spec drives UIAgent.run with    *)
(* the manager, a configured chain and nondeterministic collaborators.     *)
(***************************************************************************)
EXTENDS Integers, Sequences, FiniteSets, TLC

VARIABLES
    middlewares,   \* MiddlewareManager.middlewares (ordered chain)
    call,          \* the last phase call made on the manager (SpecMgr)
    config,        \* UIAgent.config
    context,       \* UIAgent.context
    pc,            \* position of the control flow inside run()/step()
    running,       \* BaseAgent.running
    iteration,     \* local variable `iteration` of run()
    state,         \* local variable `state` of step()
    actions,       \* local variable `actions` of step()
    idx,           \* position of the for loop over `actions`
    final_result,  \* local variable `final_result` of step()
    stop,          \* value returned by the last step()
    summary,       \* value returned by run()
    events,        \* ghost: phase calls, collaborator calls and appends
    decided,       \* ghost: raw decisions returned by Brain.decide
    appended,      \* ghost: every entry ever appended to context.history
    exit,          \* ghost: how run() left its loop
    now,           \* time.time(), in ticks
    execs,         \* ghost: the invocations of Executor.execute on a dict
    ic,            \* a call of InputController.validate / execute
    prompt,        \* the selection of the prompt at the start of run()
    heap           \* ghost: the list objects made for context["history"]

vars == <<middlewares, call, config, context, pc, running, iteration, state,
          actions, idx, final_result, stop, summary, events, decided, appended,
          exit, now, execs, ic, prompt, heap>>

agentVars == <<config, context, pc, running, iteration, state, actions, idx,
               final_result, stop, summary, events, decided, appended, exit,
               now, execs, ic, prompt, heap>>

\* the same without the call of the InputController
runVars == <<config, context, pc, running, iteration, state, actions, idx,
             final_result, stop, summary, events, decided, appended, exit,
             now, execs, prompt, heap>>

-----------------------------------------------------------------------------
(* Bounds *)

MaxChain == 3      \* longest chain registered in SpecMgr
MaxIter == 2       \* largest configured max_iterations
MaxSeq == 2        \* longest action list returned by the Brain
MaxHist == 2       \* largest configured max_history
MaxTick == 2       \* ticks that may pass during a run besides the sleeps
MaxFields == 2     \* most parameters given in an action passed to validate
MaxRuns == 2       \* most calls of run() on one agent

\* action_delays["click"] of the throttling configurations, in ticks
ClickDelay == 2

\* iteration_delay of the configurations, in ticks
IterationDelay == 1

\* time.time() when the agent is constructed: later than any delay after 0
Epoch == 5

-----------------------------------------------------------------------------
(* Values *)

Phases == {"before_perception", "after_perception", "before_decision",
           "after_decision", "before_execution", "after_execution"}

\* Python None in the place of an action
None == [type |-> "None", reason |-> "", marks |-> <<>>]

Click == [type |-> "click", reason |-> "", marks |-> <<>>]

\* The list [click, click] in the place of one action (an element of the
\* decision that is itself a list)
ClickPair == [type |-> "list", reason |-> "", marks |-> <<>>]
Stop(reason) == [type |-> "stop", reason |-> reason, marks |-> <<>>]

NoState == [error |-> FALSE, marks |-> <<>>]
NoResult == [success |-> FALSE, message |-> "", error |-> "", marks |-> <<>>]
\* No call of the InputController under way
NoInput == [phase |-> "idle", action |-> None, valid |-> FALSE,
            outcomes |-> <<>>, result |-> FALSE, os |-> <<>>, sub |-> <<>>,
            raised |-> FALSE, recorded |-> NoResult]

\* run() has not been called
NoPrompt == [phase |-> "idle", auto_prompt |-> TRUE, task |-> {},
             mapping |-> <<>>, prompt_name |-> "absent"]

NoCur == [present |-> FALSE, action |-> None, start_time |-> FALSE]

\* self.context as built by setup()
InitContext ==
    [history |-> <<>>, iteration |-> 0, cur |-> NoCur, marks |-> <<>>,
     image_path |-> FALSE]

\* ghost: no list was made yet, no run has returned.  `lists` holds the
\* contents of the list objects that setup() made for context["history"],
\* one per run (a list that a middleware rebinds inside a run stands for
\* the one it replaces); `returned` holds what every run returned, with
\* the list it returned and the contents of that list at the return;
\* `base` is the number of entries appended before the current run.
NoHeap == [lists |-> <<>>, returned |-> <<>>, base |-> 0]

\* mutant: setup() keeps the entries of the context it replaces
KeptHistory(old) == old

\* setup(): "history": []
FreshHistory(old) == <<>>

\* setup(): the context of a run, made when the agent holds context `old`
SetupContextOf(old) ==
    [InitContext EXCEPT !.history = FreshHistory(old.history)]

\* ghost: setup() makes a list object for the run
NewList(h, ctx, n) ==
    [h EXCEPT !.lists = Append(@, ctx.history), !.base = n]

\* ghost: the list of the run holds the history of context `ctx`
Bind(h, ctx) ==
    IF h.lists = <<>> THEN h
    ELSE [h EXCEPT !.lists[Len(h.lists)] = ctx.history]

\* ghost: run() returns context["history"] in its summary
Returned(h, it, ctx) ==
    [h EXCEPT !.returned =
        Append(@, [list |-> Len(h.lists), iterations |-> it,
                   history |-> ctx.history])]

\* The values a phase call works on: the arguments of the phase and the
\* clock the middlewares read
ArgsAt(c, s, a, r, t) ==
    [context |-> c, state |-> s, action |-> a, result |-> r, now |-> t]

Args(c, s, a, r) == ArgsAt(c, s, a, r, Epoch)

\* the element of a one-element set (binds the value of a call once)
The(S) == CHOOSE x \in S : TRUE

\* Python list[-n:]
LastN(s, n) == IF n = 0 \/ Len(s) <= n THEN s
               ELSE SubSeq(s, Len(s) - n + 1, Len(s))

-----------------------------------------------------------------------------
(* Middleware instances.  A chain element is a record                     *)
(*   [kind, id, target, seen, max_history, track_duration,                 *)
(*    click_delay, last_action_time, slept, stats,                         *)
(*    writes_fail, written, failed, escaped]                               *)
(* kind "Base" is the Middleware base class itself (identity in every      *)
(* phase); "Mark", "Raise", "Reject*" are user subclasses that transform   *)
(* what they return, raise, or return a null action; "StateTracking" is    *)
(* the built-in history middleware.  `seen` is private state of a          *)
(* subclass that rejects only the first action it is given.  "Throttling"  *)
(* is the built-in ThrottlingMiddleware; `slept` is a ghost, the types of   *)
(* the actions it slept for.  "ScreenshotLogger" is the built-in            *)
(* ScreenshotLoggerMiddleware: `writes_fail` tells whether the file system   *)
(* refuses its writes, and `written`, `failed` and `escaped` are ghosts, the *)
(* files written, the writes that failed and whether an exception left it.  *)
(* "Logging" is the built-in LoggingMiddleware, which keeps no state that    *)
(* the agent reads.                                                        *)

\* The action types counted in StateTrackingMiddleware.stats["action_types"]
StatTypes == {"click", "stop"}

NoCount == [total |-> 0, success |-> 0, fail |-> 0]

\* self.stats after __init__ and after reset_stats(); a type that is not a
\* key of action_types counts for zero
NoStats == [total_actions |-> 0, successful_actions |-> 0,
            failed_actions |-> 0, action_types |-> [t \in StatTypes |-> NoCount]]

Mw(kind, id) ==
    [kind |-> kind, id |-> id, target |-> "any", seen |-> 0,
     max_history |-> 0, track_duration |-> TRUE,
     click_delay |-> 0, last_action_time |-> 0, slept |-> {},
     stats |-> NoStats,
     writes_fail |-> FALSE, written |-> {}, failed |-> {}, escaped |-> FALSE]

\* A subclass that rejects the actions of one type in one of the two
\* rejecting phases ("RejectAD": after_decision, "RejectBE": before_execution)
Rejecter(kind, id, target) == [Mw(kind, id) EXCEPT !.target = target]

\* StateTrackingMiddleware.__init__
StateTrackingInit(id, cfg) ==
    [Mw("StateTracking", id) EXCEPT !.max_history = cfg.max_history,
                                    !.track_duration = cfg.track_duration]

\* ThrottlingMiddleware.__init__
ThrottlingInit(id, cfg) ==
    [Mw("Throttling", id) EXCEPT !.click_delay = cfg.click_delay]

\* ThrottlingMiddleware._get_max_delay, for the actions of the model: a
\* click, or a list of clicks (the largest delay of its elements)
GetMaxDelay(mw, action) ==
    IF action.type \in {"click", "list"} THEN mw.click_delay ELSE 0

\* mutant: the time is recorded before the execution too
UpdatesLastActionTimeAlways(phase) ==
    phase \in {"before_execution", "after_execution"}

\* the phase in which `self.last_action_time = time.time()` is executed
UpdatesLastActionTime(phase) == phase = "after_execution"

\* max(0, delay - elapsed)
WaitTime(mw, a) ==
    LET w == GetMaxDelay(mw, a.action) - (a.now - mw.last_action_time)
    IN IF w > 0 THEN w ELSE 0

\* ThrottlingMiddleware.process_before_execution / process_after_execution:
\* the values returned (time.sleep moves the clock)
Throttle(mw, phase, a) ==
    IF phase = "before_execution" /\ a.action # None
    THEN [a EXCEPT !.now = @ + WaitTime(mw, a)]
    ELSE a

\* ... and the middleware object after the call
Throttled(mw, phase, a) ==
    LET slept == IF phase = "before_execution" /\ a.action # None
                    /\ WaitTime(mw, a) > 0
                 THEN mw.slept \cup {a.action.type} ELSE mw.slept
    IN [mw EXCEPT !.slept = slept,
                  !.last_action_time =
                      IF UpdatesLastActionTime(phase)
                      THEN Throttle(mw, phase, a).now ELSE @]

Mark(v, id) == [v EXCEPT !.marks = Append(@, id)]

\* What a transforming subclass returns: every value of the phase's
\* signature, each tagged with the middleware's id.
Marked(id, phase, a) ==
    CASE phase = "before_perception" ->
            [a EXCEPT !.context = Mark(@, id)]
      [] phase \in {"after_perception", "before_decision"} ->
            [a EXCEPT !.context = Mark(@, id), !.state = Mark(@, id)]
      [] phase = "after_decision" ->
            [a EXCEPT !.context = Mark(@, id), !.state = Mark(@, id),
                      !.action = IF a.action = None THEN None ELSE Mark(@, id)]
      [] phase = "before_execution" ->
            [a EXCEPT !.context = Mark(@, id),
                      !.action = IF a.action = None THEN None ELSE Mark(@, id)]
      [] phase = "after_execution" ->
            [a EXCEPT !.context = Mark(@, id), !.result = Mark(@, id),
                      !.action = IF a.action = None THEN None ELSE Mark(@, id)]

\* Middleware.process_*: the defaults of the base class
BaseDefault(phase, a) == a

\* StateTrackingMiddleware.process_before_perception
ST_before_perception(mw, a) == a

\* StateTrackingMiddleware.process_after_decision
ST_after_decision(mw, a) ==
    IF a.action = None THEN a
    ELSE [a EXCEPT !.context.cur =
            [present |-> TRUE, action |-> a.action,
             start_time |-> (mw.track_duration /\ a.action.type # "list")]]

\* history[-max_history:] when the list is longer than max_history
ST_truncate(history, max_history) ==
    IF Len(history) > max_history THEN LastN(history, max_history)
    ELSE history

\* the entry StateTrackingMiddleware appends: the record stored at
\* after_decision, completed with the result
ActionRecord(cur, result) ==
    [kind |-> "record", action |-> cur.action, result |-> result]

\* StateTrackingMiddleware.process_after_execution
ST_after_execution(mw, a) ==
    IF a.action = None \/ ~a.context.cur.present THEN a
    ELSE [a EXCEPT
            !.context.history =
                ST_truncate(Append(@, ActionRecord(a.context.cur, a.result)),
                            mw.max_history),
            !.context.cur = NoCur]

\* total += 1, and success += 1 or fail += 1
Count(c, success) ==
    [total |-> c.total + 1,
     success |-> IF success THEN c.success + 1 ELSE c.success,
     fail |-> IF success THEN c.fail ELSE c.fail + 1]

\* A dict whose "type" is a JSON array or object: a value that cannot be
\* the key of a dict
Unhashable == [type |-> "unhashable", reason |-> "", marks |-> <<>>]

\* `action_type not in self.stats["action_types"]` can be evaluated
Hashable(type) == type # "unhashable"

\* StateTrackingMiddleware._update_stats, with track_stats at its default:
\* the three counters are updated first, then the ones of the type, where
\* the test of the key raises TypeError for a type that cannot be hashed
UpdateStats(stats, type, success) ==
    LET overall == Count([total |-> stats.total_actions,
                          success |-> stats.successful_actions,
                          fail |-> stats.failed_actions], success)
    IN [total_actions |-> overall.total,
        successful_actions |-> overall.success,
        failed_actions |-> overall.fail,
        action_types |-> IF Hashable(type)
                         THEN [stats.action_types EXCEPT
                                  ![type] = Count(@, success)]
                         ELSE stats.action_types]

\* process_after_execution raises in _update_stats
StatsRaise(phase, a) ==
    /\ phase = "after_execution"
    /\ a.action # None
    /\ a.context.cur.present
    /\ ~Hashable(a.action.type)

\* the context when it does: the record is appended and its start_time
\* removed, the key "_current_action" is not yet deleted
ST_interrupted(mw, a) ==
    [ST_after_execution(mw, a).context EXCEPT
        !.cur = [a.context.cur EXCEPT !.start_time = FALSE]]

\* mutant: the statistics start again at every step
StatsClearedAtPerception(stats) == NoStats

\* process_before_perception copies self.stats into the context and leaves
\* them as they are
StatsAtPerception(stats) == stats

\* self.stats after one call of StateTrackingMiddleware: in
\* process_after_execution one update for a dict, and one per element for
\* a list (the list of two clicks)
ST_stats(mw, phase, a) ==
    IF phase = "before_perception" THEN StatsAtPerception(mw.stats)
    ELSE IF phase # "after_execution" \/ a.action = None
            \/ ~a.context.cur.present
    THEN mw.stats
    ELSE IF a.action.type = "list"
    THEN UpdateStats(UpdateStats(mw.stats, "click", a.result.success),
                     "click", a.result.success)
    ELSE UpdateStats(mw.stats, a.action.type, a.result.success)

\* The file ScreenshotLoggerMiddleware writes first in a phase, if any:
\* the screenshot when the state holds an image, the analysis of the model
\* for an action that is not a stop (followed by the line of actions.jsonl),
\* the result file when the screenshot of the step was saved
LoggerWrite(phase, a) ==
    CASE phase = "after_perception" /\ ~a.state.error -> "screenshot"
      [] phase = "after_decision" /\ a.action # None
         /\ a.action.type # "stop" -> "analysis"
      [] phase = "after_execution" /\ a.action # None
         /\ a.context.image_path -> "result"
      [] OTHER -> "none"

\* mutant: a failed write of the result file is not caught
WriteErrorEscapesResult(file) == file = "result"

\* every write is inside `try: ... except Exception as e: logger.error(...)`
WriteErrorEscapes(file) == FALSE

\* ScreenshotLoggerMiddleware.process_*: the values returned; only the
\* scratch key _current_image_path of the context changes, set when the
\* screenshot is saved and removed when the result file is written
LoggerReturns(mw, phase, a) ==
    LET file == LoggerWrite(phase, a)
    IN IF file = "none" \/ mw.writes_fail THEN a
       ELSE CASE file = "screenshot" -> [a EXCEPT !.context.image_path = TRUE]
              [] file = "result" -> [a EXCEPT !.context.image_path = FALSE]
              [] OTHER -> a

\* ... and the middleware object after the call
Logged(mw, phase, a) ==
    LET file == LoggerWrite(phase, a)
    IN IF file = "none" THEN mw
       ELSE IF mw.writes_fail
       THEN [mw EXCEPT !.failed = @ \cup {file},
                       !.escaped = @ \/ WriteErrorEscapes(file)]
       ELSE [mw EXCEPT !.written = @ \cup
                {file} \cup (IF file = "analysis" THEN {"actions"} ELSE {})]

\* The entries a middleware call appends to context.history
MwAppends(mw, phase, a) ==
    IF mw.kind = "StateTracking" /\ phase = "after_execution"
       /\ a.action # None /\ a.context.cur.present
    THEN <<ActionRecord(a.context.cur, a.result)>>
    ELSE <<>>

\* LoggingMiddleware.process_after_execution raises for an element that is
\* itself a list: `zip(result, action)` pairs the keys of the result dict
\* with the sub-actions, and `res.get` is called on a str
LoggingRaises(phase, a) ==
    phase = "after_execution" /\ a.action # None /\ a.action.type = "list"

\* mutant: an action that is a list is logged and not returned
LoggingReturnsDictOnly(phase, a) ==
    IF phase \in {"after_decision", "before_execution"}
       /\ a.action.type = "list"
    THEN [a EXCEPT !.action = None] ELSE a

\* LoggingMiddleware.process_*: every phase writes its log lines and
\* returns the values it was given
LoggingReturns(phase, a) == a

RejectPhase(mw) ==
    CASE mw.kind = "Reject" -> {"after_decision", "before_execution"}
      [] mw.kind = "RejectAD" -> {"after_decision"}
      [] mw.kind = "RejectBE" -> {"before_execution"}
      [] OTHER -> {}

\* One call middleware.process_<phase>(...): whether it raised, what it
\* returned (for a raising call: what it had computed when it raised) and
\* the middleware object after the call.
Invoke(mw, phase, a) ==
    CASE mw.kind = "Base" ->
            [raised |-> FALSE, mw |-> mw, args |-> BaseDefault(phase, a)]
      [] mw.kind = "Mark" ->
            [raised |-> FALSE, mw |-> mw, args |-> Marked(mw.id, phase, a)]
      [] mw.kind = "Raise" ->
            [raised |-> TRUE, mw |-> mw, args |-> Marked(mw.id, phase, a),
             inplace |-> a.context]
      [] mw.kind \in {"Reject", "RejectAD", "RejectBE"} ->
            IF phase \in RejectPhase(mw)
               /\ (mw.target = "any" \/ a.action.type = mw.target)
            THEN [raised |-> FALSE, mw |-> mw,
                  args |-> [a EXCEPT !.action = None]]
            ELSE [raised |-> FALSE, mw |-> mw, args |-> BaseDefault(phase, a)]
      [] mw.kind = "RejectFirst" ->
            IF phase = "after_decision" /\ a.action # None /\ mw.seen = 0
            THEN [raised |-> FALSE, mw |-> [mw EXCEPT !.seen = 1],
                  args |-> [a EXCEPT !.action = None]]
            ELSE [raised |-> FALSE, mw |-> mw, args |-> BaseDefault(phase, a)]
      [] mw.kind = "ScreenshotLogger" ->
            [raised |-> (mw.writes_fail
                         /\ WriteErrorEscapes(LoggerWrite(phase, a))),
             mw |-> Logged(mw, phase, a),
             args |-> LoggerReturns(mw, phase, a),
             inplace |-> a.context]
      [] mw.kind = "Logging" ->
            [raised |-> LoggingRaises(phase, a), mw |-> mw,
             args |-> LoggingReturns(phase, a), inplace |-> a.context]
      [] mw.kind = "Throttling" ->
            [raised |-> FALSE, mw |-> Throttled(mw, phase, a),
             args |-> Throttle(mw, phase, a)]
      [] mw.kind = "StateTracking" ->
            [raised |-> StatsRaise(phase, a),
             inplace |-> ST_interrupted(mw, a),
             mw |-> [mw EXCEPT !.stats = ST_stats(mw, phase, a)],
             args |-> CASE phase = "before_perception" -> ST_before_perception(mw, a)
                        [] phase = "after_decision" -> ST_after_decision(mw, a)
                        [] phase = "after_execution" -> ST_after_execution(mw, a)
                        [] OTHER -> BaseDefault(phase, a)]

-----------------------------------------------------------------------------
(* MiddlewareManager *)

\* Every process_* method wraps the middleware call in
\* `try: ... except Exception`
HandlerCatches(phase) == TRUE

\* mutant: the values computed by the failing call are kept
OnExceptionKeepsOutput(before, r) == r.args

\* `except Exception`: the assignment did not happen, the loop goes on with
\* the values it had before the call
OnException(before, r) == before

\* ... where the context is the dict the failing call was given, with the
\* changes that call made to it before it raised
InPlace(before, r) == [before EXCEPT !.context = r.inplace]

\* mutant: process_before_execution without its break
BreaksOnNoneAfterDecisionOnly(phase, action) ==
    phase = "after_decision" /\ action = None

\* `if action is None: break` exists in process_after_decision and
\* process_before_execution only
BreaksOnNone(phase, action) ==
    phase \in {"after_decision", "before_execution"} /\ action = None

RECURSIVE Reverse(_)
Reverse(q) == IF q = <<>> THEN <<>> ELSE Append(Reverse(Tail(q)), Head(q))

\* mutant: the chain walked from the last registered middleware
ChainOrderReversed(mws) == Reverse(mws)

\* `for middleware in self.middlewares`: list order
ChainOrder(mws) == mws

\* The loop body of a process_* method over the middlewares still to call
\* (`done`: the middlewares already called).  Returns the values returned,
\* whether an exception left the method, the middleware objects after the
\* call, the log of the calls made and the entries appended to
\* context.history.
RECURSIVE RunChain(_, _, _, _, _, _)
RunChain(mws, phase, a, log, apps, done) ==
    IF mws = <<>>
    THEN [args |-> a, raised |-> FALSE, mws |-> done, log |-> log,
          apps |-> apps]
    ELSE LET mw == Head(mws)
             r == Invoke(mw, phase, a)
             entry == [id |-> mw.id, input |-> a, raised |-> r.raised,
                       output |-> r.args]
             log2 == Append(log, entry)
             apps2 == apps \o MwAppends(mw, phase, a)
             done2 == Append(done, r.mw)
         IN IF r.raised
            THEN IF HandlerCatches(phase)
                 THEN RunChain(Tail(mws), phase,
                               InPlace(OnException(a, r), r), log2, apps2,
                               done2)
                 ELSE [args |-> a, raised |-> TRUE, mws |-> done2 \o Tail(mws),
                       log |-> log2, apps |-> apps]
            ELSE IF BreaksOnNone(phase, r.args.action)
                 THEN [args |-> r.args, raised |-> FALSE,
                       mws |-> done2 \o Tail(mws), log |-> log2, apps |-> apps2]
                 ELSE RunChain(Tail(mws), phase, r.args, log2, apps2, done2)

\* A whole phase call on the manager
PhaseCall(mws, phase, a) ==
    RunChain(ChainOrder(mws), phase, a, <<>>, <<>>, <<>>)

process_before_perception(mws, c, t) ==
    PhaseCall(mws, "before_perception", ArgsAt(c, NoState, None, NoResult, t))

process_after_perception(mws, s, c, t) ==
    PhaseCall(mws, "after_perception", ArgsAt(c, s, None, NoResult, t))

process_before_decision(mws, s, c, t) ==
    PhaseCall(mws, "before_decision", ArgsAt(c, s, None, NoResult, t))

process_after_decision(mws, act, s, c, t) ==
    PhaseCall(mws, "after_decision", ArgsAt(c, s, act, NoResult, t))

process_before_execution(mws, act, c, t) ==
    PhaseCall(mws, "before_execution", ArgsAt(c, NoState, act, NoResult, t))

process_after_execution(mws, res, act, c, t) ==
    PhaseCall(mws, "after_execution", ArgsAt(c, NoState, act, res, t))


-----------------------------------------------------------------------------
(* SpecMgr: the MiddlewareManager driven directly.                         *)

\* run() has not left its loop
NoExit == [why |-> "none", iteration |-> 0, history |-> <<>>]

NoCall == [phase |-> "none", chain |-> <<>>, arg |-> "",
           input |-> Args(InitContext, NoState, None, NoResult),
           out |-> [args |-> Args(InitContext, NoState, None, NoResult),
                    raised |-> FALSE, mws |-> <<>>, log |-> <<>>,
                    apps |-> <<>>]]

MgrKinds == {"Base", "Mark", "Raise", "Reject"}

UsedIds(mws) == {mws[i].id : i \in 1..Len(mws)}

\* the identity of a newly constructed middleware object
FreshId(mws) == CHOOSE id \in 1..(Len(mws) + 1) : id \notin UsedIds(mws)

\* Input values of a phase call
InStates == {[error |-> e, marks |-> <<>>] : e \in BOOLEAN}
InActions == {Click, Stop("done"), None}
InResults == {[success |-> b, message |-> "", error |-> "", marks |-> <<>>] :
                b \in BOOLEAN}

InitMgr ==
    /\ middlewares = <<>>
    /\ call = NoCall
    /\ config = [middlewares |-> <<>>, max_iterations |-> 1, max_history |-> 1,
                 track_duration |-> TRUE, click_delay |-> ClickDelay]
    /\ context = InitContext
    /\ pc = "idle"
    /\ running = FALSE
    /\ iteration = 0
    /\ state = NoState
    /\ actions = <<>>
    /\ idx = 0
    /\ final_result = FALSE
    /\ stop = FALSE
    /\ summary = [returned |-> FALSE, iterations |-> 0, history |-> <<>>]
    /\ events = <<>>
    /\ decided = <<>>
    /\ appended = <<>>
    /\ exit = NoExit
    /\ now = Epoch
    /\ execs = <<>>
    /\ ic = NoInput
    /\ prompt = NoPrompt
    /\ heap = NoHeap


\* ghost: a call of add or remove, with its argument, the list before and
\* after it and whether it raised
RegCall(op, arg, before, after, raised) ==
    [NoCall EXCEPT !.phase = op, !.chain = before, !.out.mws = after,
                   !.out.raised = raised, !.arg = arg]

\* The objects passed to add: middlewares, and an object of another class
AddArgs == MgrKinds \cup {"NotAMiddleware"}

\* isinstance(middleware, Middleware)
IsMiddleware(kind) == kind \in MgrKinds

\* MiddlewareManager.add
Add ==
    \E kind \in AddArgs :
        /\ call = NoCall
        /\ Len(middlewares) < MaxChain
        /\ middlewares' =
              IF IsMiddleware(kind)
              THEN Append(middlewares, Mw(kind, FreshId(middlewares)))
              ELSE \* raise TypeError(...)
                   middlewares
        /\ call' = RegCall("add", kind, middlewares, middlewares',
                           ~IsMiddleware(kind))
        /\ UNCHANGED agentVars

\* mutant: the first instance of the class is removed
RemoveFirstOfKind(mws, kind) ==
    IF \E i \in DOMAIN mws : mws[i].kind = kind
    THEN LET i == CHOOSE i \in DOMAIN mws :
                     /\ mws[i].kind = kind
                     /\ \A j \in 1..(i - 1) : mws[j].kind # kind
         IN SubSeq(mws, 1, i - 1) \o SubSeq(mws, i + 1, Len(mws))
    ELSE mws

\* [m for m in self.middlewares if not isinstance(m, middleware_class)]
RemoveKind(mws, kind) == SelectSeq(mws, LAMBDA m : m.kind # kind)

\* MiddlewareManager.remove
Remove ==
    \E kind \in MgrKinds :
        /\ call = NoCall
        /\ middlewares' = RemoveKind(middlewares, kind)
        /\ call' = RegCall("remove", kind, middlewares, middlewares', FALSE)
        /\ UNCHANGED agentVars

\* A process_* method called by the agent; the calls are made one at a
\* time, `call` holding the one that has not returned yet
MgrCall(phase, a) ==
    \E out \in {PhaseCall(middlewares, phase, a)} :
        /\ call = NoCall
        /\ call' = [phase |-> phase, chain |-> middlewares, arg |-> "",
                    input |-> a, out |-> out]
        /\ middlewares' = out.mws
        /\ UNCHANGED agentVars

\* The process_* method returns to the agent
Return ==
    /\ call # NoCall
    /\ call' = NoCall
    /\ UNCHANGED <<middlewares, agentVars>>

Call_before_perception ==
    MgrCall("before_perception", Args(InitContext, NoState, None, NoResult))

Call_after_perception ==
    \E s \in InStates :
        MgrCall("after_perception", Args(InitContext, s, None, NoResult))

Call_before_decision ==
    \E s \in InStates :
        MgrCall("before_decision", Args(InitContext, s, None, NoResult))

Call_after_decision ==
    \E s \in InStates, act \in InActions :
        MgrCall("after_decision", Args(InitContext, s, act, NoResult))

Call_before_execution ==
    \E act \in InActions :
        MgrCall("before_execution", Args(InitContext, NoState, act, NoResult))

Call_after_execution ==
    \E act \in InActions, r \in InResults :
        MgrCall("after_execution", Args(InitContext, NoState, act, r))

NextMgr ==
    \/ Add
    \/ Remove
    \/ Call_before_perception
    \/ Call_after_perception
    \/ Call_before_decision
    \/ Call_after_decision
    \/ Call_before_execution
    \/ Call_after_execution
    \/ Return

SpecMgr == InitMgr /\ [][NextMgr]_vars


-----------------------------------------------------------------------------
(* UIAgent: configuration and collaborators                               *)

\* Class names that config["middlewares"] may list
ChainConfigs ==
    { <<>>,
      <<"StateTracking">>,
      <<"RejectClickAfterDecision">>,
      <<"RejectClickBeforeExecution">>,
      <<"RejectFirstAfterDecision">>,
      <<"Raise", "StateTracking", "RejectClickBeforeExecution">>,
      <<"Missing", "RejectClickAfterDecision">>,
      <<"Mark", "RejectClickAfterDecision", "StateTracking">> }

HasStateTracking(names) == \E i \in 1..Len(names) : names[i] = "StateTracking"

\* The configurations an agent is constructed with: every chain with every
\* max_iterations, and the history middleware with every max_history
Configs ==
    { [middlewares |-> names, max_iterations |-> n, max_history |-> MaxHist,
       track_duration |-> TRUE, click_delay |-> ClickDelay] :
        names \in ChainConfigs, n \in 1..MaxIter }
    \cup
    { [middlewares |-> <<"StateTracking">>, max_iterations |-> 1,
       max_history |-> h, track_duration |-> TRUE,
       click_delay |-> ClickDelay] : h \in 1..MaxHist }
    \cup
    { [middlewares |-> <<>>, max_iterations |-> 0, max_history |-> MaxHist,
       track_duration |-> TRUE, click_delay |-> ClickDelay] }

\* getattr(module, class_name)(self.config)
Instantiate(name, id, cfg) ==
    CASE name = "StateTracking" -> StateTrackingInit(id, cfg)
      [] name = "Throttling" -> ThrottlingInit(id, cfg)
      [] name = "ScreenshotLogger" -> Mw("ScreenshotLogger", id)
      [] name = "Logging" -> Mw("Logging", id)
      [] name = "RejectClickAfterDecision" -> Rejecter("RejectAD", id, "click")
      [] name = "RejectClickBeforeExecution" -> Rejecter("RejectBE", id, "click")
      [] name = "RejectFirstAfterDecision" -> Mw("RejectFirst", id)
      [] OTHER -> Mw(name, id)

\* `__import__` / `getattr` / the constructor succeed for this class name
Loadable(name) == name # "Missing"

\* UIAgent.setup_middlewares: a MiddlewareManager with one instance per
\* configured class that could be loaded, in configuration order
SetupMiddlewares(cfg) ==
    LET names == SelectSeq(cfg.middlewares, Loadable)
    IN [i \in 1..Len(names) |-> Instantiate(names[i], i, cfg)]

\* Outcomes of setup(): the three collaborators are constructed, or a
\* constructor raises (OpenAI(api_key=None), PromptManager's os.makedirs)
SetupOutcomes == {"ok", "raise"}

\* Action types the language model answers with
ActionTypes == {"click", "stop"}

ActionOf(t) == IF t = "stop" THEN Stop("done")
               ELSE [type |-> t, reason |-> "", marks |-> <<>>]

SeqsUpTo(S, n) == UNION {[1..k -> S] : k \in 1..n}

\* What LLMDecision._parse_response returns for a well-formed reply: one
\* action (a dict) or a non-empty list of actions
BrainReplies ==
    {[isList |-> FALSE, items |-> <<ActionOf(t)>>] : t \in ActionTypes}
    \cup {[isList |-> TRUE, items |-> [i \in 1..Len(ts) |-> ActionOf(ts[i])]] :
            ts \in SeqsUpTo(ActionTypes, MaxSeq)}

\* A dict without the key 'type', and a value that is not a dict
NoTypeDict == [type |-> "", reason |-> "", marks |-> <<>>]
NonDict == [type |-> "nondict", reason |-> "", marks |-> <<>>]

HasType(a) == a.type \notin {"", "nondict", "None", "list"}

\* What the language model can answer (LLMDecision._call_api):
\*   form "api"    a text that starts with "API" (also what _call_api
\*                 returns when the backend call fails)
\*   form "text"   a text without a fenced block
\*   form "fence"  a text with a fenced block; `json` is what json.loads
\*                 makes of it: tag "invalid" (JSONDecodeError), "dict",
\*                 "list" or "scalar" (null, number, string)
\*   form "raise"  an exception inside decide() (prompt lookup/formatting)
Fenced(tag, items) == [form |-> "fence", tag |-> tag, items |-> items]
Unfenced(form) == [form |-> form, tag |-> "", items |-> <<>>]

WellFormed ==
    {Fenced(IF d.isList THEN "list" ELSE "dict", d.items) : d \in BrainReplies}

\* A list whose second element is itself a list: _parse_response looks at
\* the first element only and returns the list as it is
NestedList == Fenced("list", <<Click, ClickPair>>)

Malformed ==
    { Unfenced("api"), Unfenced("text"), Unfenced("raise"),
      Fenced("invalid", <<>>), Fenced("scalar", <<>>),
      Fenced("dict", <<NoTypeDict>>),
      Fenced("list", <<>>),
      Fenced("list", <<NonDict, Click>>),
      Fenced("list", <<NoTypeDict>>) }

Responses == WellFormed \cup Malformed

\* the single stop action returned in place of a decision
StopDecision(reason) == [isList |-> FALSE, items |-> <<Stop(reason)>>]

\* mutant: the "API" prefix is not tested
IsApiErrorNever(r) == FALSE

\* `if response.startswith("API")`
IsApiError(r) == r.form = "api"

\* mutant: the empty list is let through
MalformedListNotEmpty(items) == items # <<>> /\ ~HasType(items[1])

\* `case list() if not action or not isinstance(action[0], dict) or
\*  "type" not in action[0]`
MalformedList(items) == items = <<>> \/ ~HasType(items[1])

\* LLMDecision._parse_response
ParseResponse(r) ==
    IF IsApiError(r) THEN StopDecision("api error")
    ELSE IF r.form # "fence" THEN StopDecision("no json found")
    ELSE CASE r.tag = "invalid" -> StopDecision("invalid json")
           [] r.tag = "dict" ->
                IF ~HasType(r.items[1])
                THEN StopDecision("invalid action format")
                ELSE [isList |-> FALSE, items |-> r.items]
           [] r.tag = "list" ->
                IF MalformedList(r.items)
                THEN StopDecision("invalid action format")
                ELSE [isList |-> TRUE, items |-> r.items]
           [] OTHER -> StopDecision("invalid action format")

\* mutant: the error field of the state is not looked at
StateInvalidNever(st) == FALSE

\* `if not state or "error" in state`
StateInvalid(st) == st.error

\* LLMDecision.decide: a state carrying an error is answered with stop, an
\* exception inside decide() too, otherwise the reply is parsed
Decide(st, reply) ==
    IF StateInvalid(st) THEN StopDecision("state error")
    ELSE IF reply.form = "raise" THEN StopDecision("decision error")
    ELSE ParseResponse(reply)

\* ghost: how the decision of a step came about
DecisionKind(st, reply) ==
    IF StateInvalid(st) THEN "state_error"
    ELSE IF reply \in WellFormed THEN "ok"
    ELSE IF reply.form # "fence" THEN reply.form
    ELSE IF reply.tag = "list" /\ reply.items = <<>> THEN "empty_list"
    ELSE IF reply.tag = "list" THEN "bad_head"
    ELSE IF reply.tag = "dict" THEN "no_type"
    ELSE reply.tag

\* `actions = action if isinstance(action, list) else [action]`
Normalize(decision) == decision.items

\* mutant: the type is compared with another literal
should_stop_exit(action) == action.type = "exit"

\* should_stop, on a dict
should_stop(action) == action.type = "stop"

\* mutant: the Result of a stop action carries no message
StopResultNoMessage(action) ==
    [success |-> TRUE, message |-> "", error |-> "", marks |-> <<>>]

\* the Result of a stop action
StopResult(action) ==
    [success |-> TRUE, message |-> action.reason, error |-> "", marks |-> <<>>]

\* the Result of an executed action
ExecResult(success) ==
    [success |-> success, message |-> "",
     error |-> IF success THEN "" ELSE "failed", marks |-> <<>>]

\* the entry step() appends
HistoryItem(action, result) ==
    [kind |-> "item", action |-> action, result |-> result]

\* mutant: the entry is inserted at the front of the history
AgentAppendFront(history, item) == <<item>> \o history

\* self.context["history"].append(history_item)
AgentAppend(history, item) == Append(history, item)

\* `if success: final_result = True`
FinalResult(prev, success) == prev \/ success

\* Outcomes of Executor.execute
ExecOutcomes == {"ok", "fail", "raise"}

\* Outcomes of Perception.process
PerceptionOutcomes == {"ok", "error", "raise"}

\* mutant: the null test is missing
IsRejectedNever(action) == FALSE

\* `if current_action is None: continue`
IsRejected(action) == action = None

\* An event of the step: a phase call with the type of the action it
\* returned, Executor.execute with its outcome, or the append to the history
Tr(name, info) == [ev |-> name, info |-> info]

\* ghost: the invocations of execute() that executor.execute(a) at time t
\* makes on dicts, and whether each returned; InputController.execute
\* calls itself on every element of a list
ExecInvocations(a, t, outcome) ==
    LET inv(type, ret) == [type |-> type, time |-> t, returned |-> ret]
    IN IF a.type = "list"
       THEN IF outcome = "raise" THEN <<inv("click", FALSE)>>
            ELSE <<inv("click", TRUE), inv("click", TRUE)>>
       ELSE <<inv(a.type, outcome # "raise")>>

\* mutant: the entry is appended before after_execution is run
RecordEventsAppendFirst(type) ==
    <<Tr("append", ""), Tr("after_execution", type)>>

\* process_after_execution returns before the entry is built and appended
RecordEvents(type) == <<Tr("after_execution", type), Tr("append", "")>>

\* The pass of an element that reached execute or is a stop: the
\* after_execution call `ae` on `res` and the append to the history.
ElementRecord(ae, s1, returns, success, trace, apps, execd) ==
    LET item == HistoryItem(ae.args.action, ae.args.result)
    IN [context |-> [ae.args.context EXCEPT !.history = AgentAppend(@, item)],
        state |-> s1, mws |-> ae.mws, returns |-> returns,
        success |-> success,
        trace |-> trace \o RecordEvents(ae.args.action.type),
        apps |-> apps \o ae.apps \o <<item>>,
        now |-> ae.args.now, execs |-> execd]

\* mutant: the exception of the executor is taken for a result
ElementFailsNever(outcome) == FALSE

\* executor.execute raises: the `except Exception` inside the loop over
\* the actions is entered, which ends with `continue`
ElementFails(outcome) == outcome = "raise"

\* The pass of an element that after_decision let through as a non-stop
\* action: the before_execution call `be`, execute and what follows.
ElementExecute(be, s1, t1, apps1, outcome) ==
    LET a2 == be.args.action
        c2 == be.args.context
        t2 == t1 \o <<Tr("before_execution", a2.type)>>
    IN IF IsRejected(a2) \/ ElementFails(outcome)
       THEN \* `continue`, for a null action and in the inner `except`
            [context |-> c2, state |-> s1, mws |-> be.mws,
             returns |-> FALSE, success |-> FALSE,
             trace |-> IF IsRejected(a2) THEN t2
                       ELSE t2 \o <<Tr("execute", outcome)>>,
             apps |-> apps1 \o be.apps,
             now |-> be.args.now,
             execs |-> IF IsRejected(a2) THEN <<>>
                       ELSE ExecInvocations(a2, be.args.now, outcome)]
       ELSE The({ ElementRecord(ae, s1, FALSE, outcome = "ok",
                                t2 \o <<Tr("execute", outcome)>>,
                                apps1 \o be.apps,
                                ExecInvocations(a2, be.args.now, outcome)) :
                  ae \in {process_after_execution(
                             be.mws, ExecResult(outcome = "ok"), a2, c2,
                             be.args.now)} })

\* The body of `for act in actions` for one element, after the
\* after_decision call `ad`.  `returns` tells whether step() returns true
\* from inside the loop.
ElementAfterDecision(ad, outcome) ==
    LET a1 == ad.args.action
        c1 == ad.args.context
        s1 == ad.args.state
        t1 == <<Tr("after_decision", a1.type)>>
    IN IF IsRejected(a1)
       THEN [context |-> c1, state |-> s1, mws |-> ad.mws, returns |-> FALSE,
             success |-> FALSE, trace |-> t1, apps |-> ad.apps,
             now |-> ad.args.now, execs |-> <<>>]
       ELSE IF should_stop(a1)
       THEN The({ ElementRecord(ae, s1, TRUE, TRUE, t1, ad.apps, <<>>) :
                  ae \in {process_after_execution(ad.mws, StopResult(a1),
                                                  a1, c1, ad.args.now)} })
       ELSE The({ ElementExecute(be, s1, t1, ad.apps, outcome) :
                  be \in {process_before_execution(ad.mws, a1, c1,
                                                   ad.args.now)} })

\* The body of `for act in actions` for one element, started at time t
ProcessElement(mws, act, st, ctx, outcome, t) ==
    The({ ElementAfterDecision(ad, outcome) :
          ad \in {process_after_decision(mws, act, st, ctx, t)} })

Ev(name, it, i, info) == [ev |-> name, iter |-> it, idx |-> i, info |-> info]

Stamp(trace, it, i) ==
    [k \in 1..Len(trace) |-> Ev(trace[k].ev, it, i, trace[k].info)]

NoSummary == [returned |-> FALSE, iterations |-> 0, history |-> <<>>]

-----------------------------------------------------------------------------
(* Spec: UIAgent.run                                                       *)

\* The agent after construction with one of the configurations `cfgs`
Start(cfgs) ==
    /\ config \in cfgs
    /\ middlewares = <<>>
    /\ call = NoCall
    /\ context = InitContext
    /\ pc = "idle"
    /\ running = FALSE
    /\ iteration = 0
    /\ state = NoState
    /\ actions = <<>>
    /\ idx = 0
    /\ final_result = FALSE
    /\ stop = FALSE
    /\ summary = NoSummary
    /\ events = <<>>
    /\ decided = <<>>
    /\ appended = <<>>
    /\ exit = NoExit
    /\ now = Epoch
    /\ execs = <<>>
    /\ ic = NoInput
    /\ prompt = NoPrompt
    /\ heap = NoHeap

Init == Start(Configs)

\* run(), up to the loop: setup(), setup_middlewares(), running = True
RunStart ==
    /\ pc = "idle"
    /\ \E outcome \in SetupOutcomes :
          IF outcome = "raise"
          THEN \* setup() is called outside the `try` of run()
               /\ pc' = "raised"
               /\ UNCHANGED <<context, middlewares, running, iteration, heap>>
          ELSE /\ context' = SetupContextOf(context)
               /\ heap' = NewList(heap, context', Len(appended))
               /\ middlewares' = SetupMiddlewares(config)
               /\ running' = TRUE
               /\ iteration' = 0
               /\ pc' = "loop"
    /\ UNCHANGED <<call, exit, now, execs, ic, prompt, config, state, actions,
                   idx, final_result, stop, summary, events, decided,
                   appended>>

\* `while self.running:` and the head of the loop body
LoopHead ==
    /\ pc = "loop"
    /\ IF running
       THEN /\ iteration' = iteration + 1
            /\ context' = [context EXCEPT !.iteration = iteration + 1]
            /\ pc' = "step"
       ELSE /\ pc' = "finally"
            /\ UNCHANGED <<iteration, context>>
    /\ UNCHANGED <<middlewares, call, exit, now, execs, ic, prompt, config,
                   running, state, actions, idx, final_result, stop, summary,
                   events, decided, appended, heap>>

\* A Brain whose decide() lets an exception out (BaseBrain.decide is an
\* interface; LLMDecision.decide catches every Exception itself)
Escaping == Unfenced("escape")

\* the call of self.brain.decide raises
DecideRaises(reply) == reply.form = "escape"

\* mutant: the handler of step() returns True
OnStepExceptionTrue(final) == TRUE

\* `except Exception as e: ... return False` of step()
OnStepException(final) == FALSE

\* step(), from its start to the normalisation of the decision
Step(replies) ==
    /\ pc = "step"
    /\ \E p \in PerceptionOutcomes, reply \in replies :
       \E bp \in {process_before_perception(middlewares, context, now)} :
       \E ap \in {process_after_perception(
                     bp.mws, [error |-> (p = "error"), marks |-> <<>>],
                     bp.args.context, now)} :
       \E bd \in {process_before_decision(ap.mws, ap.args.state,
                                          ap.args.context, now)} :
        LET decision == Decide(bd.args.state, reply)
        IN IF p = "raise"
           THEN \* the outer `except Exception` of step(): return False
                /\ context' = bp.args.context
                /\ middlewares' = bp.mws
                /\ stop' = OnStepException(final_result)
                /\ pc' = "check"
                /\ events' = events \o
                     <<Ev("before_perception", iteration, 0, ""),
                       Ev("perceive", iteration, 0, "raise")>>
                /\ UNCHANGED <<state, actions, idx, final_result, decided>>
           ELSE IF DecideRaises(reply)
           THEN \* the same handler, after the three phases before decide
                /\ context' = bd.args.context
                /\ middlewares' = bd.mws
                /\ state' = bd.args.state
                /\ stop' = OnStepException(final_result)
                /\ pc' = "check"
                /\ events' = events \o
                     <<Ev("before_perception", iteration, 0, ""),
                       Ev("perceive", iteration, 0, p),
                       Ev("after_perception", iteration, 0, ""),
                       Ev("before_decision", iteration, 0, ""),
                       Ev("decide", iteration, 0, "raise")>>
                /\ UNCHANGED <<actions, idx, final_result, decided>>
           ELSE /\ context' = bd.args.context
                /\ middlewares' = bd.mws
                /\ state' = bd.args.state
                /\ actions' = Normalize(decision)
                /\ idx' = 1
                /\ final_result' = FALSE
                /\ decided' = Append(decided, decision)
                /\ pc' = "element"
                /\ events' = events \o
                     <<Ev("before_perception", iteration, 0, ""),
                       Ev("perceive", iteration, 0, p),
                       Ev("after_perception", iteration, 0, ""),
                       Ev("before_decision", iteration, 0, ""),
                       Ev("decide", iteration, 0,
                          DecisionKind(bd.args.state, reply))>>
                /\ UNCHANGED stop
    /\ heap' = Bind(heap, context')
    /\ UNCHANGED <<call, exit, now, execs, ic, prompt, config, running,
                   iteration, summary, appended>>

\* one pass of `for act in actions`
StepElement ==
    /\ pc = "element"
    /\ idx <= Len(actions)
    /\ \E outcome \in ExecOutcomes :
        \E el \in {ProcessElement(middlewares, actions[idx], state, context,
                                  outcome, now)} :
           /\ now' = el.now
           /\ execs' = execs \o el.execs
           /\ context' = el.context
           /\ middlewares' = el.mws
           /\ state' = el.state
           /\ events' = events \o Stamp(el.trace, iteration, idx)
           /\ appended' = appended \o el.apps
           /\ IF el.returns
              THEN /\ stop' = TRUE
                   /\ pc' = "check"
                   /\ UNCHANGED <<idx, final_result>>
              ELSE /\ idx' = idx + 1
                   /\ final_result' = FinalResult(final_result, el.success)
                   /\ UNCHANGED <<stop, pc>>
    /\ heap' = Bind(heap, context')
    /\ UNCHANGED <<call, exit, ic, prompt, config, running, iteration, actions,
                   summary, decided>>

\* the end of step(): `return final_result`
StepEnd ==
    /\ pc = "element"
    /\ idx > Len(actions)
    /\ stop' = final_result
    /\ pc' = "check"
    /\ UNCHANGED <<middlewares, call, exit, now, execs, ic, prompt, config,
                   context, running, iteration, state, actions, idx,
                   final_result, summary, events, decided, appended, heap>>

\* mutant: the limit is tested with >
ReachedLimitLate(it, max) == it > max

\* `if iteration >= self.max_iterations: break`
ReachedLimit(it, max) == it >= max

\* ghost: the loop of run() is left in iteration `it`
Exit(why, it, ctx) == [why |-> why, iteration |-> it, history |-> ctx.history]

\* mutant: the interrupt is swallowed and the loop goes on
AfterInterruptLoop(k) == "loop"

\* `except KeyboardInterrupt:` of run(), then `finally`
AfterInterrupt(k) == "finally"

\* A KeyboardInterrupt raised while step() runs: step() and the manager
\* catch Exception only, so it propagates to run()
Interrupt ==
    /\ pc \in {"step", "element"}
    /\ pc' = AfterInterrupt(iteration)
    /\ exit' = Exit("interrupt", iteration, context)
    /\ events' = Append(events, Ev("interrupt", iteration, idx, ""))
    /\ UNCHANGED <<middlewares, call, now, execs, ic, prompt, config, context,
                   running, iteration, state, actions, idx, final_result,
                   stop, summary, decided, appended, heap>>

\* mutant: the sleep comes before the tests
SleepsAfterAnyStep(stopped, limit) == IterationDelay > 0

\* `if self.iteration_delay > 0: time.sleep(...)` is reached when neither
\* `break` was executed
SleepsAfter(stopped, limit) == ~stopped /\ ~limit /\ IterationDelay > 0

\* run(): the tests after step() returned, and the sleep
LoopCheck ==
    /\ pc = "check"
    /\ \E sleeps \in {SleepsAfter(stop, ReachedLimit(iteration,
                                                     config.max_iterations))} :
          /\ now' = IF sleeps THEN now + IterationDelay ELSE now
          /\ events' = IF sleeps
                       THEN Append(events, Ev("sleep", iteration, idx, ""))
                       ELSE events
    /\ pc' = IF stop THEN "finally"
             ELSE IF ReachedLimit(iteration, config.max_iterations)
                  THEN "finally"
             ELSE "loop"
    /\ exit' = IF stop THEN Exit("stop", iteration, context)
             ELSE IF ReachedLimit(iteration, config.max_iterations)
                  THEN Exit("limit", iteration, context)
             ELSE exit
    /\ UNCHANGED <<middlewares, call, execs, ic, prompt, config, context,
                   running, iteration, state, actions, idx, final_result,
                   stop, summary, decided, appended, heap>>

\* mutant: stop() leaves the flag as it is
StopAgentKeeps(flag) == flag

\* stop(): self.running = False
StopAgent(flag) == FALSE

\* run(): `finally: self.stop()` and the return of the summary
Finish ==
    /\ pc = "finally"
    /\ running' = StopAgent(running)
    /\ summary' = [returned |-> TRUE, iterations |-> iteration,
                   history |-> context.history]
    /\ heap' = Returned(heap, iteration, context)
    /\ pc' = "done"
    /\ UNCHANGED <<middlewares, call, exit, now, execs, ic, prompt, config,
                   context, iteration, state, actions, idx, final_result,
                   stop, events, decided, appended>>

StepBegin == Step(Responses)

Next ==
    \/ RunStart
    \/ LoopHead
    \/ StepBegin
    \/ StepElement
    \/ StepEnd
    \/ LoopCheck
    \/ Interrupt
    \/ Finish

Spec == Init /\ [][Next]_vars

-----------------------------------------------------------------------------
(* SpecThrottle: UIAgent.run with ThrottlingMiddleware registered and a    *)
(* clock that also advances by itself                                      *)

ThrottleChains ==
    { <<"Throttling">>,
      <<"Throttling", "RejectClickBeforeExecution">>,
      <<"RejectClickBeforeExecution", "Throttling">>,
      <<"RejectFirstAfterDecision", "Throttling">> }

ThrottleConfigs ==
    { [middlewares |-> names, max_iterations |-> n, max_history |-> MaxHist,
       track_duration |-> TRUE, click_delay |-> ClickDelay] :
        names \in ThrottleChains, n \in 1..MaxIter }

InitThrottle == Start(ThrottleConfigs)

\* Time passes between two elements of the action loop
Tick ==
    /\ pc = "element"
    /\ now < Epoch + MaxTick
    /\ now' = now + 1
    /\ UNCHANGED <<middlewares, call, config, context, pc, running, iteration,
                   state, actions, idx, final_result, stop, summary, events,
                   decided, appended, exit, execs, ic,
                   prompt, heap>>

\* The replies of the language model in the throttling runs: clicks, alone
\* and in lists, a stop and a failed API call
ThrottleReplies ==
    { Fenced("dict", <<Click>>), Fenced("list", <<Click, Click>>),
      NestedList, Fenced("dict", <<Stop("done")>>), Unfenced("api") }

StepBeginThrottle == Step(ThrottleReplies)

NextThrottle ==
    \/ RunStart
    \/ LoopHead
    \/ StepBeginThrottle
    \/ StepElement
    \/ StepEnd
    \/ LoopCheck
    \/ Interrupt
    \/ Finish
    \/ Tick

SpecThrottle == InitThrottle /\ [][NextThrottle]_vars

\* Every call made by run() returns: the control flow always advances
\* The configurations of the runs checked for termination: every
\* max_iterations from 0, without middleware and with one that rejects
FairConfigs ==
    { [middlewares |-> names, max_iterations |-> n, max_history |-> MaxHist,
       track_duration |-> TRUE, click_delay |-> ClickDelay] :
        names \in {<<>>, <<"RejectFirstAfterDecision">>}, n \in 0..MaxIter }

InitFair == Start(FairConfigs)

\* The replies of the language model in these runs: an action that lets
\* the loop go on, a stop, both in one list, and a failed API call
FairReplies ==
    { Fenced("dict", <<Click>>), Fenced("dict", <<Stop("done")>>),
      Fenced("list", <<Click, Stop("done")>>), Unfenced("api") }

StepBeginFair == Step(FairReplies)

NextFair ==
    \/ RunStart
    \/ LoopHead
    \/ StepBeginFair
    \/ StepElement
    \/ StepEnd
    \/ LoopCheck
    \/ Interrupt
    \/ Finish

FairSpec == InitFair /\ [][NextFair]_vars /\ WF_vars(NextFair)

-----------------------------------------------------------------------------
(* Claims on the MiddlewareManager (checked under SpecMgr)                 *)

Max(S) == CHOOSE x \in S : \A y \in S : y <= x

Ids(q) == [i \in 1..Len(q) |-> q[i].id]

IsPrefix(p, q) == Len(p) <= Len(q) /\ SubSeq(q, 1, Len(p)) = p

\* The values returned by the last call of the log that did not raise, or
\* the inputs of the phase call when every call raised
LastSuccess(log, input) ==
    LET ok == {i \in 1..Len(log) : ~log[i].raised}
    IN IF ok = {} THEN input ELSE log[Max(ok)].output

\* Each call of the log received what the previous successful call returned
Feeding(log, input) ==
    \A i \in 1..Len(log) : log[i].input = LastSuccess(SubSeq(log, 1, i - 1), input)

\* C1: a phase call never raises and returns exactly the values returned by
\* the last middleware that returned without raising, or the inputs of the
\* phase call if none did; what a raising middleware computed is dropped.
C1_ErrorIsolation ==
    call.phase \in Phases =>
        /\ ~call.out.raised
        /\ call.out.args = LastSuccess(call.out.log, call.input)

\* C1 witness: a call on a chain in which a middleware transformed the
\* values, a later one raised after computing other values, and the call
\* returned the values of the former.
C1_Witness ==
    /\ call.phase \in Phases
    /\ \E i, j \in 1..Len(call.out.log) :
          /\ i < j
          /\ ~call.out.log[i].raised
          /\ call.out.log[i].output # call.input
          /\ call.out.log[j].raised
          /\ call.out.log[j].output # call.out.log[j].input
    /\ call.out.args # call.input

\* C9: in after_decision and before_execution, the middleware that returns a
\* null action is the last one invoked in that phase call, and the call
\* returns normally with the null action.
C9_RejectionShortCircuit ==
    call.phase \in {"after_decision", "before_execution"} =>
        \A i \in 1..Len(call.out.log) :
            (~call.out.log[i].raised /\ call.out.log[i].output.action = None)
                => /\ i = Len(call.out.log)
                   /\ call.out.args.action = None
                   /\ ~call.out.raised

\* C9 witness: a non-null action was rejected by a middleware that is not
\* the last of the chain, and the rest of the chain was not invoked.
C9_Witness ==
    /\ call.phase \in {"after_decision", "before_execution"}
    /\ call.input.action # None
    /\ call.out.args.action = None
    /\ Len(call.out.log) >= 1
    /\ Len(call.out.log) < Len(call.chain)

\* C10 as stated: every phase call invokes every registered middleware
\* exactly once, in registration order, each on the output of the previous
\* middleware that succeeded.
C10_EveryMiddlewareOnce ==
    call.phase \in Phases =>
        /\ Ids(call.out.log) = Ids(call.chain)
        /\ Feeding(call.out.log, call.input)

\* C10 amended: every phase call invokes the registered middlewares in
\* registration order, each at most once and each on the output of the
\* previous middleware that succeeded; it invokes all of them, except that
\* after_decision and before_execution stop after the first middleware that
\* returns a null action.
C10_ChainOrder ==
    call.phase \in Phases =>
        LET log == call.out.log
        IN /\ IsPrefix(Ids(log), Ids(call.chain))
           /\ Feeding(log, call.input)
           /\ Len(log) < Len(call.chain) =>
                /\ call.phase \in {"after_decision", "before_execution"}
                /\ Len(log) >= 1
                /\ ~log[Len(log)].raised
                /\ log[Len(log)].output.action = None

\* C10 witness: a call on a chain of three in which all three middlewares
\* were invoked and the third received values changed by an earlier one.
C10_Witness ==
    /\ call.phase \in Phases
    /\ Len(call.chain) = 3
    /\ Len(call.out.log) = 3
    /\ call.out.log[3].input # call.input
    /\ call.out.log[2].raised


-----------------------------------------------------------------------------
(* Claims on UIAgent.run / step (checked under Spec)                       *)

EvIdx == 1..Len(events)

\* an event of element i of the step of iteration k
At(n, k, i) == events[n].iter = k /\ events[n].idx = i

\* after_decision returned a stop action for element i of iteration k
StopSeen(k, i) ==
    \E n \in EvIdx : At(n, k, i) /\ events[n].ev = "after_decision"
                     /\ events[n].info = "stop"

\* a rejecting phase returned a null action for element i of iteration k
RejectedAt(k, i) ==
    \E n \in EvIdx : At(n, k, i) /\ events[n].info = "None"
                     /\ events[n].ev \in {"after_decision", "before_execution"}

\* the step of iteration k reached Brain.decide
Decided(k) == \E n \in EvIdx : events[n].iter = k /\ events[n].ev = "decide"

\* every Executor.execute call of iteration k succeeded
ExecutorSucceeds(k) ==
    \A n \in EvIdx : (events[n].iter = k /\ events[n].ev = "execute")
                        => events[n].info = "ok"

\* C2: step() returns true only when a stop action was processed in it.
C2_StepTrueOnlyOnStop ==
    (pc = "check" /\ stop) => \E i \in 1..Len(actions) : StopSeen(iteration, i)

\* C3: with no middleware, a Brain that answers every iteration with a
\* single click and an Executor that always succeeds, run() returns after
\* exactly max_iterations iterations with max_iterations history entries,
\* all successful.
C3_ScenarioA ==
    ( /\ pc = "done"
      /\ config.middlewares = <<>>
      /\ config.max_iterations >= 1
      /\ exit.why # "interrupt"
      /\ \A k \in 1..iteration : Decided(k) /\ ExecutorSucceeds(k)
      /\ \A n \in 1..Len(decided) :
            decided[n] = [isList |-> FALSE, items |-> <<Click>>] )
    => /\ summary.iterations = config.max_iterations
       /\ Len(summary.history) = config.max_iterations
       /\ \A n \in 1..Len(summary.history) : summary.history[n].result.success

C5_ScenarioB ==
    ( /\ pc = "done"
      /\ config.middlewares = <<>>
      /\ exit.why # "interrupt"
      /\ Decided(1)
      /\ ExecutorSucceeds(1)
      /\ LET d == decided[1].items
         IN /\ d[Len(d)].type = "stop"
            /\ \A j \in 1..(Len(d) - 1) : d[j].type # "stop" )
    => LET d == decided[1].items
           h == summary.history
       IN /\ summary.returned
          /\ summary.iterations = 1
          /\ Len(h) = Len(d)
          /\ \A j \in 1..Len(d) : h[j].action = d[j] /\ h[j].result.success
          /\ h[Len(d)].result.message = d[Len(d)].reason
          /\ \A n \in EvIdx : events[n].iter = 1

\* C5 witness: a run has returned whose only step executed a click and then
\* processed a stop.
C5_Witness ==
    /\ pc = "done"
    /\ config.middlewares = <<>>
    /\ Len(decided) = 1
    /\ Len(decided[1].items) = 2
    /\ decided[1].items[1].type = "click"
    /\ decided[1].items[2].type = "stop"
    /\ ExecutorSucceeds(1)
    /\ Len(summary.history) = 2

\* C6: with StateTrackingMiddleware registered, the history never holds
\* more than max_history entries, and it holds the most recently appended
\* entries in their original order.
C6_BoundedHistory ==
    HasStateTracking(config.middlewares) =>
        /\ Len(context.history) <= config.max_history
        /\ context.history = LastN(appended, Len(context.history))
        /\ Len(summary.history) <= config.max_history

\* C7: the number of entries appended to the history equals the number of
\* processed actions (executed actions and processed stops, each of which
\* went through after_execution once).
C7_OneEntryPerAction ==
    Len(appended) =
        Cardinality({n \in EvIdx : events[n].ev = "after_execution"})

\* C8: when after_decision or before_execution returns a null action for an
\* element, that call is the last event of the element (no execution, no
\* after_execution, no history append), and the loop goes on with the next
\* element of the sequence.
C8_RejectionSkip ==
    \A n \in EvIdx :
        (events[n].ev \in {"after_decision", "before_execution"}
         /\ events[n].info = "None") =>
            LET k == events[n].iter
                i == events[n].idx
            IN /\ \A m \in EvIdx : At(m, k, i) => m <= n
               /\ \A m \in EvIdx :
                     At(m, k, i) =>
                        events[m].ev \notin {"execute", "after_execution", "append"}
               /\ (k = iteration /\ pc = "element") => idx > i
               /\ (k = iteration /\ pc = "check" /\ i < Len(actions)) =>
                     \E m \in EvIdx : m > n /\ At(m, k, i + 1)
                                      /\ events[m].ev = "after_decision"

\* C8 witness: the first element of a sequence was rejected and the second
\* one was executed and recorded.
C8_Witness ==
    /\ pc = "check"
    /\ Len(actions) = 2
    /\ RejectedAt(iteration, 1)
    /\ \E n \in EvIdx : At(n, iteration, 2) /\ events[n].ev = "execute"
                        /\ events[n].info = "ok"
    /\ Len(context.history) = 1

-----------------------------------------------------------------------------
(* Claims on run(): failures, termination                                  *)

\* C11: when a keyboard interrupt (the only thing step() lets through)
\* leaves step() in iteration k, no further step event follows, run() calls
\* stop() and returns the summary with iterations = k and the history as it
\* was at the failure.
C11_ContainedFailure ==
    \A n \in EvIdx :
        events[n].ev = "interrupt" =>
            /\ n = Len(events)
            /\ pc \in {"finally", "done"}
            /\ iteration = events[n].iter
            /\ exit = Exit("interrupt", events[n].iter, context)
            /\ pc = "done" =>
                  /\ ~running
                  /\ summary.returned
                  /\ summary.iterations = events[n].iter
                  /\ summary.history = exit.history

\* C11 witness: a run interrupted in its second iteration has returned a
\* summary that holds the entry of the first iteration.
C11_Witness ==
    /\ pc = "done"
    /\ exit.why = "interrupt"
    /\ summary.iterations = 2
    /\ Len(summary.history) >= 1

\* C12: run() never raises to its caller, also when a constructor called by
\* setup() fails.
C12_RunNeverRaises == pc # "raised"

\* C13: run() terminates, after at most max(max_iterations, 1) steps; a
\* step is started after the first one only while the limit has not been
\* reached, and a step that returned true ends the loop as a stop, not as a
\* reached limit.
C13_Termination ==
    /\ [](/\ iteration <= Max({config.max_iterations, 1})
          /\ (pc \in {"step", "element"} /\ iteration > 1)
                => iteration <= config.max_iterations
          /\ exit.why = "limit" => (~stop /\ exit.iteration >= config.max_iterations)
          /\ (pc \in {"finally", "done"} /\ stop) => exit.why = "stop")
    /\ <>(pc \in {"done", "raised"})

\* C13 witness: a run has ended because the iteration limit, larger than
\* one, was reached.
C13_Witness ==
    /\ pc = "done"
    /\ exit.why = "limit"
    /\ config.max_iterations >= 2
    /\ summary.iterations = config.max_iterations

-----------------------------------------------------------------------------
(* Claims on the decision: normalisation, decode failures, perception      *)
(* errors                                                                  *)

\* the decide event of the last step that reached Brain.decide
LastDecide == events[Max({n \in EvIdx : events[n].ev = "decide"})]

\* decisions that _parse_response or decide() replace
MalformedKinds == {"api", "text", "raise", "invalid", "scalar", "no_type",
                   "empty_list", "bad_head"}

\* the reason of the stop action that replaces them
Diagnostic(kind) ==
    CASE kind = "api" -> "api error"
      [] kind = "text" -> "no json found"
      [] kind = "raise" -> "decision error"
      [] kind = "invalid" -> "invalid json"
      [] kind = "state_error" -> "state error"
      [] OTHER -> "invalid action format"

\* the last entry of history h is the stop action with that reason, with
\* the reason as message of its result
EndsWithStop(h, reason) ==
    /\ Len(h) >= 1
    /\ h[Len(h)].action.type = "stop"
    /\ h[Len(h)].action.reason = reason
    /\ h[Len(h)].result.success
    /\ h[Len(h)].result.message = reason

BuiltinsOnly ==
    \A i \in 1..Len(config.middlewares) :
        config.middlewares[i] \in {"Logging", "Throttling", "StateTracking",
                                   "ScreenshotLogger"}

C15_DecisionError ==
    (Len(decided) > 0 /\ LastDecide.info \in MalformedKinds) =>
        LET reason == Diagnostic(LastDecide.info)
        IN /\ decided[Len(decided)] = StopDecision(reason)
           /\ BuiltinsOnly =>
                /\ LastDecide.iter = iteration
                /\ pc = "check" => (stop /\ EndsWithStop(context.history, reason))
                /\ (pc = "done" /\ exit.why # "interrupt") =>
                      /\ exit.why = "stop"
                      /\ summary.iterations = LastDecide.iter
                      /\ EndsWithStop(summary.history, reason)

\* C15 witness: with the history middleware registered, a run whose second
\* decision failed at the backend has ended in iteration 2 with the stop
\* recorded.
C15_Witness ==
    /\ pc = "done"
    /\ config.middlewares = <<"StateTracking">>
    /\ Len(decided) > 0
    /\ LastDecide.info = "api"
    /\ exit.why = "stop"
    /\ EndsWithStop(summary.history, "api error")

-----------------------------------------------------------------------------
(* ThrottlingMiddleware under SpecThrottle                                 *)

ThrottlingLoaded ==
    \E i \in DOMAIN middlewares : middlewares[i].kind = "Throttling"

\* C17: with ThrottlingMiddleware registered and the delay ClickDelay
\* configured for clicks, any two consecutive invocations of
\* Executor.execute on a click that both return are at least ClickDelay
\* apart.
C17_ThrottlingGap ==
    ThrottlingLoaded =>
        \A i \in 1..(Len(execs) - 1) :
            (/\ execs[i].type = "click" /\ execs[i].returned
             /\ execs[i + 1].type = "click" /\ execs[i + 1].returned)
            => execs[i + 1].time - execs[i].time >= ClickDelay

\* the last_action_time of every registered middleware
LastActionTimes(mws) == [i \in DOMAIN mws |-> mws[i].last_action_time]

\* the pass of an element of the action loop that ended with a null action
ElementRejected ==
    /\ pc = "element"
    /\ Len(events') > Len(events)
    /\ events'[Len(events')].ev \in {"after_decision", "before_execution"}
    /\ events'[Len(events')].info = "None"

\* C18: when an element is rejected at after_decision or before_execution,
\* ThrottlingMiddleware.last_action_time is the same after the element as
\* before it; a rejection at after_decision lets no time pass, and any sleep
\* of the element was for the click that was not null yet.
C18_RejectedLeavesThrottle ==
    [][ElementRejected =>
          /\ LastActionTimes(middlewares') = LastActionTimes(middlewares)
          /\ now' # now =>
                /\ events'[Len(events')].ev = "before_execution"
                /\ \E i \in DOMAIN middlewares' :
                      /\ middlewares'[i].kind = "Throttling"
                      /\ "click" \in middlewares'[i].slept
          /\ \A i \in DOMAIN middlewares' :
                "None" \notin middlewares'[i].slept]_vars

\* a click was executed and recorded by the throttle, time has passed since,
\* and a later click has been rejected
C18_Witness ==
    /\ ThrottlingLoaded
    /\ execs # <<>>
    /\ \E i \in DOMAIN middlewares :
          /\ middlewares[i].kind = "Throttling"
          /\ middlewares[i].last_action_time >= Epoch
          /\ middlewares[i].last_action_time < now
    /\ events # <<>>
    /\ events[Len(events)].ev \in {"after_decision", "before_execution"}
    /\ events[Len(events)].info = "None"
    /\ events[Len(events)].iter = 2

-----------------------------------------------------------------------------
(* InputController.validate and InputController.execute on one action      *)

\* A parameter of an action: the key is not in the dict, is in it with the
\* value None (a JSON null), with an empty list, or with a value of the
\* expected kind (a number, a non-empty string or list)
Params == {"absent", "null", "empty", "value"}

ParamNames == {"x", "y", "text", "keys", "direction", "clicks"}

\* The values of the key 'type': the six supported types, another string,
\* and "" for a dict without the key (or with an empty or null type)
InputTypes == {"move", "click", "type", "key", "scroll", "stop", "unknown", ""}

\* A value that is not a dict (a string)
NotADict == [type |-> "nondict", params |-> [n \in ParamNames |-> "absent"]]

Given(a) == {n \in ParamNames : a.params[n] # "absent"}

\* The values passed to validate / execute
InputActions ==
    {a \in [type : InputTypes, params : [ParamNames -> Params]] :
        Cardinality(Given(a)) <= MaxFields}
    \cup {NotADict}

\* `"x" in action`
InDict(a, n) == a.params[n] # "absent"

\* `action.get("x") is None`
IsNone(a, n) == a.params[n] \in {"absent", "null"}

\* mutant: a scroll with clicks is accepted too
ScrollHasTargetOrClicks(a) ==
    InDict(a, "direction") \/ (InDict(a, "x") /\ InDict(a, "y"))
    \/ InDict(a, "clicks")

\* the negation of
\* `"direction" not in action and ("x" not in action or "y" not in action)`
ScrollHasTarget(a) ==
    InDict(a, "direction") \/ (InDict(a, "x") /\ InDict(a, "y"))

\* InputController.validate
validate(a) ==
    IF a.type \in {"nondict", "list"} THEN FALSE
    ELSE IF a.type = "" THEN FALSE
    ELSE CASE a.type = "move" -> InDict(a, "x") /\ InDict(a, "y")
           [] a.type = "click" ->
                \/ ~IsNone(a, "x") /\ ~IsNone(a, "y")
                \/ IsNone(a, "x") /\ IsNone(a, "y")
           [] a.type = "type" -> InDict(a, "text")
           [] a.type = "key" -> InDict(a, "keys")
           [] a.type = "scroll" -> ScrollHasTarget(a)
           [] a.type = "stop" -> TRUE
           [] OTHER -> FALSE

\* Outcomes of a pyautogui call
OsOutcomes == {"ok", "raise"}

\* mutant: the exception of a pyautogui call leaves execute()
PropagatesRaise(outcome) == outcome = "raise"

\* `except Exception as e: ... return False` in the five private methods
\* and in execute(): no exception of a pyautogui call leaves execute()
Propagates(outcome) == FALSE

\* The dispatch of execute(): the pyautogui calls issued by _move_mouse,
\* _click_mouse, _type_text, _press_key and _scroll and the value returned;
\* every exception is caught and turned into False
Dispatch(a, outcome) ==
    LET done(name) == [result |-> outcome = "ok" /\ ~Propagates(outcome),
                       os |-> <<name>>, raised |-> Propagates(outcome)]
        failed == [result |-> FALSE, os |-> <<>>, raised |-> FALSE]
    IN CASE a.type = "move" -> done("moveTo")
         [] a.type = "click" -> done("click")
         [] a.type = "type" -> done("typewrite")
         [] a.type = "key" ->
              \* len(None) raises, an empty list is refused
              IF a.params["keys"] = "value" THEN done("press") ELSE failed
         [] a.type = "scroll" ->
              \* -None and -[] raise; a direction None or [] is unknown
              IF \/ a.params["clicks"] \in {"null", "empty"}
                 \/ a.params["direction"] \in {"null", "empty"}
              THEN failed ELSE done("scroll")
         [] a.type = "stop" -> [result |-> TRUE, os |-> <<>>, raised |-> FALSE]
         [] OTHER -> failed

\* mutant: execute() without the validation
RefusedNever(a) == FALSE

\* `if not self.validate(action): return False`
Refused(a) == ~validate(a)

\* InputController.execute on a value that is not a list
execute(a, outcome) ==
    IF Refused(a) THEN [result |-> FALSE, os |-> <<>>, raised |-> FALSE]
    ELSE Dispatch(a, outcome)

\* The elements of the lists passed to execute: the actions without
\* parameter (a click and a stop are valid), a `type` with its text, and a
\* value that is not a dict
ListItems ==
    {a \in InputActions :
        \/ Given(a) = {}
        \/ a.type = "type" /\ Given(a) = {"text"} /\ a.params["text"] = "value"}

\* The lists passed to execute
InputLists ==
    {[type |-> "list", items |-> items] :
        items \in UNION {[1..k -> ListItems] : k \in 0..MaxSeq}}

\* mutant: the success of the last sub-action
LastOf(results) == results = <<>> \/ results[Len(results)]

\* all(success)
All(results) == \A i \in 1..Len(results) : results[i]

\* mutant: the loop is left at the first sub-action that fails
ExecuteUntilFailure(items, outcomes) ==
    [i \in 1..Len(items) |->
        IF \E j \in 1..(i - 1) : ~execute(items[j], outcomes[j]).result
        THEN [result |-> FALSE, os |-> <<>>, raised |-> FALSE]
        ELSE execute(items[i], outcomes[i])]

\* `for act in action: suc = self.execute(act); success.append(suc)`: the
\* values returned by the calls, the i-th pyautogui call having outcomes[i]
ExecuteEach(items, outcomes) ==
    [i \in 1..Len(items) |-> execute(items[i], outcomes[i])]

RECURSIVE Concat(_)
Concat(seqs) ==
    IF seqs = <<>> THEN <<>> ELSE Head(seqs) \o Concat(Tail(seqs))

\* InputController.execute on a list
execute_list(items, outcomes) ==
    LET each == ExecuteEach(items, outcomes)
        success == [i \in 1..Len(each) |-> each[i].result]
    IN [result |-> All(success), sub |-> success,
        os |-> Concat([i \in 1..Len(each) |-> each[i].os]),
        raised |-> \E i \in 1..Len(each) : each[i].raised]

InitInput ==
    /\ config = [middlewares |-> <<>>, max_iterations |-> 1, max_history |-> 1,
                 track_duration |-> TRUE, click_delay |-> ClickDelay]
    /\ middlewares = <<>>
    /\ call = NoCall
    /\ context = InitContext
    /\ pc = "idle"
    /\ running = FALSE
    /\ iteration = 0
    /\ state = NoState
    /\ actions = <<>>
    /\ idx = 0
    /\ final_result = FALSE
    /\ stop = FALSE
    /\ summary = NoSummary
    /\ events = <<>>
    /\ decided = <<>>
    /\ appended = <<>>
    /\ exit = NoExit
    /\ now = Epoch
    /\ execs = <<>>
    /\ prompt = NoPrompt
    /\ heap = NoHeap
    /\ ic \in {[NoInput EXCEPT !.phase = "input", !.action = a] :
                  a \in InputActions \cup InputLists}

\* controller.validate(action)
Validate ==
    /\ ic.phase = "input"
    /\ ic' = [ic EXCEPT !.phase = "validated", !.valid = validate(ic.action)]
    /\ UNCHANGED <<middlewares, call, runVars>>

\* controller.execute(action) on a value that is not a list
Execute ==
    /\ ic.phase = "input"
    /\ ic.action.type # "list"
    /\ \E outcome \in OsOutcomes :
       \E r \in {execute(ic.action, outcome)} :
          ic' = [ic EXCEPT !.phase = "executed", !.outcomes = <<outcome>>,
                           !.result = r.result, !.os = r.os,
                           !.raised = r.raised]
    /\ UNCHANGED <<middlewares, call, runVars>>

\* controller.execute(action) on a list
ExecuteList ==
    /\ ic.phase = "input"
    /\ ic.action.type = "list"
    /\ \E outcomes \in [1..Len(ic.action.items) -> OsOutcomes] :
       \E r \in {execute_list(ic.action.items, outcomes)} :
          ic' = [ic EXCEPT !.phase = "executed", !.outcomes = outcomes,
                           !.result = r.result, !.os = r.os, !.sub = r.sub,
                           !.raised = r.raised]
    /\ UNCHANGED <<middlewares, call, runVars>>

\* step() after `success = self.executor.execute(current_action)`: the
\* Result it builds
Record ==
    /\ ic.phase = "executed"
    /\ ~ic.raised
    /\ ic' = [ic EXCEPT !.phase = "recorded",
                        !.recorded = ExecResult(ic.result)]
    /\ UNCHANGED <<middlewares, call, runVars>>

NextInput ==
    \/ Validate
    \/ Execute
    \/ ExecuteList
    \/ Record

SpecInput == InitInput /\ [][NextInput]_vars

\* C19: for any single action on which validate() returns false, execute()
\* returns false and issues no mouse, keyboard or scroll call.
C19_ValidatesFirst ==
    (/\ ic.phase = "executed"
     /\ ic.action.type # "list"
     /\ ~validate(ic.action))
    => (ic.result = FALSE /\ ic.os = <<>>)

\* an invalid move (y missing) has been given to execute()
C19_Witness ==
    /\ ic.phase = "executed"
    /\ ic.action.type = "move"
    /\ ic.action.params["x"] = "value"
    /\ ic.action.params["y"] = "absent"
    /\ ic.result = FALSE

\* the rules of the claim, `has(a, n)` telling when a parameter is present
ValidationRules(a, valid, has(_, _)) ==
    /\ a.type = "click" => (valid <=> (has(a, "x") <=> has(a, "y")))
    /\ a.type = "type" => (valid <=> has(a, "text"))
    /\ a.type = "scroll" =>
          (valid <=> (has(a, "direction") \/ (has(a, "x") /\ has(a, "y"))))
    /\ a.type = "stop" => valid
    /\ a.type \in {"nondict", "", "unknown"} => ~valid

\* a parameter is present when its key is in the dict, except that a click
\* reads a coordinate None as absent
HasParam(a, n) ==
    IF a.type = "click" THEN ~IsNone(a, n) ELSE InDict(a, n)

\* C20 (corrected): validate() accepts a click iff x and y are both given
\* with a value or both absent or None, a type iff the key text is in the
\* dict, a scroll iff the key direction or both keys x and y are in the dict
\* (clicks alone is not enough), every stop, and no non-dict value, no dict
\* without type and no unknown type.
C20_Validate ==
    ic.phase = "validated" => ValidationRules(ic.action, ic.valid, HasParam)

\* a scroll with clicks only has been refused and a click with no
\* coordinate accepted
C20_Witness ==
    /\ ic.phase = "validated"
    /\ \/ /\ ic.action.type = "scroll"
          /\ Given(ic.action) = {"clicks"}
          /\ ~ic.valid
       \/ /\ ic.action.type = "click"
          /\ Given(ic.action) = {}
          /\ ic.valid

\* C20 as stated: the same rules with one meaning of "present" for every
\* type, the key being in the dict.
C20_ValidatePresent ==
    ic.phase = "validated" => ValidationRules(ic.action, ic.valid, InDict)

\* C21: validate() accepts a key action only if keys is given and is not
\* empty (validate({type: key, keys: []}) is false), and every key action
\* it accepts can be dispatched: _press_key issues a pyautogui call for it.
C21_KeyNeedsKeys ==
    /\ (ic.phase = "validated" /\ ic.action.type = "key" /\ ic.valid)
          => ic.action.params["keys"] = "value"
    /\ (ic.phase = "executed" /\ ic.action.type = "key"
        /\ validate(ic.action))
          => ic.os # <<>>

\* C22: validate() accepts a move only if x and y are both given as
\* numbers; a move whose x or y is absent, null or not a number is invalid.
C22_MoveNeedsNumbers ==
    (ic.phase = "validated" /\ ic.action.type = "move" /\ ic.valid)
        => (ic.action.params["x"] = "value" /\ ic.action.params["y"] = "value")

\* C23: execute() on a list calls execute on every element and returns true
\* iff every one of these calls returned true (true for the empty list).
C23_ListIsAnd ==
    (ic.phase = "executed" /\ ic.action.type = "list")
        => /\ Len(ic.sub) = Len(ic.action.items)
           /\ \A i \in 1..Len(ic.sub) :
                 ic.sub[i] = execute(ic.action.items[i], ic.outcomes[i]).result
           /\ ic.result <=> (\A i \in 1..Len(ic.sub) : ic.sub[i])

\* a list of a failed click followed by a successful one returned false
C23_Witness ==
    /\ ic.phase = "executed"
    /\ ic.action.type = "list"
    /\ ic.sub = <<FALSE, TRUE>>
    /\ ic.os = <<"click", "click">>
    /\ ~ic.result

\* the action is valid and execute() has reached a pyautogui call that
\* raised
DispatchRaised ==
    /\ ic.phase \in {"executed", "recorded"}
    /\ ic.action.type \in {"move", "click", "type", "key", "scroll"}
    /\ validate(ic.action)
    /\ ic.os # <<>>
    /\ ic.outcomes = <<"raise">>

\* C24: when the pyautogui call of a valid move, click, type, key or scroll
\* raises, execute() returns false and raises nothing, and the Result built
\* by step() has success false and an error that is not null.
C24_ErrorsAreValues ==
    DispatchRaised =>
        /\ ~ic.raised
        /\ ~ic.result
        /\ ic.phase = "recorded" =>
              (~ic.recorded.success /\ ic.recorded.error # "")

\* the Result of a scroll whose pyautogui call raised has been built
C24_Witness ==
    /\ DispatchRaised
    /\ ic.phase = "recorded"
    /\ ic.action.type = "scroll"
    /\ ~ic.recorded.success

-----------------------------------------------------------------------------
(* The selection of the prompt in UIAgent.run                              *)

\* the prompts named in task_prompt_mapping, and the keywords
Categories == {"browser", "office"}
Keywords == {"chrome", "excel"}

\* config["default_prompt_name"]
DefaultPrompt == "default"

\* task_prompt_mapping, in the order of the dict: no, one or two categories,
\* each with its keywords
Mappings ==
    {m \in UNION {[1..k -> [name : Categories,
                            keywords : SUBSET Keywords \ {{}}]] :
                    k \in 0..Cardinality(Categories)} :
        \A i, j \in DOMAIN m : m[i].name = m[j].name => i = j}

\* The task, as the set of the keywords that occur in it whatever the case
Tasks == SUBSET Keywords

\* `keyword.lower() in task_lower` for one of the keywords of the category
Matches(category, task) == category.keywords \cap task # {}

\* UIAgent._auto_select_prompt: the name set_prompt writes into
\* context["prompt_name"]
AutoSelectPrompt(task, mapping) ==
    LET hits == {i \in DOMAIN mapping : Matches(mapping[i], task)}
    IN IF hits = {} THEN DefaultPrompt
       ELSE mapping[CHOOSE i \in hits : \A j \in hits : i <= j].name

\* setup(): self.context = {..., "prompt_name": default_prompt_name}
SetupPromptName == DefaultPrompt

InitPrompt ==
    /\ config = [middlewares |-> <<>>, max_iterations |-> 1, max_history |-> 1,
                 track_duration |-> TRUE, click_delay |-> ClickDelay]
    /\ middlewares = <<>>
    /\ call = NoCall
    /\ context = InitContext
    /\ pc = "idle"
    /\ running = FALSE
    /\ iteration = 0
    /\ state = NoState
    /\ actions = <<>>
    /\ idx = 0
    /\ final_result = FALSE
    /\ stop = FALSE
    /\ summary = NoSummary
    /\ events = <<>>
    /\ decided = <<>>
    /\ appended = <<>>
    /\ exit = NoExit
    /\ now = Epoch
    /\ execs = <<>>
    /\ ic = NoInput
    /\ prompt \in {[NoPrompt EXCEPT !.phase = "run", !.auto_prompt = a,
                                    !.task = t, !.mapping = m] :
                     a \in BOOLEAN, t \in Tasks, m \in Mappings}
    /\ heap = NoHeap

promptFrame == <<middlewares, call, config, context, pc, running, iteration,
                 state, actions, idx, final_result, stop, summary, events,
                 decided, appended, exit, now, execs, ic, heap>>

\* run(task): self.setup()
SetupContext ==
    /\ prompt.phase = "run"
    /\ prompt' = [prompt EXCEPT !.phase = "setup",
                                !.prompt_name = SetupPromptName]
    /\ UNCHANGED promptFrame

\* run(task): `if self.config.get("auto_prompt", True) and "prompt_name" not
\* in self.context: self._auto_select_prompt(task)`
SelectPrompt ==
    /\ prompt.phase = "setup"
    /\ prompt' = [prompt EXCEPT
          !.phase = "selected",
          !.prompt_name =
              IF prompt.auto_prompt /\ prompt.prompt_name = "absent"
              THEN AutoSelectPrompt(prompt.task, prompt.mapping)
              ELSE @]
    /\ UNCHANGED promptFrame

NextPrompt ==
    \/ SetupContext
    \/ SelectPrompt

SpecPrompt == InitPrompt /\ [][NextPrompt]_vars

\* C25: with auto_prompt enabled, context.prompt_name holds, before the
\* first step, the name of the first category of task_prompt_mapping one of
\* whose keywords occurs in the task, and the default name when no category
\* matches.
C25_AutoPrompt ==
    (prompt.phase = "selected" /\ prompt.auto_prompt) =>
        LET m == prompt.mapping
            hits == {i \in DOMAIN m : m[i].keywords \cap prompt.task # {}}
        IN /\ hits = {} => prompt.prompt_name = DefaultPrompt
           /\ hits # {} =>
                 \E i \in hits : /\ \A j \in hits : i <= j
                                 /\ prompt.prompt_name = m[i].name

-----------------------------------------------------------------------------
(* SpecStats: UIAgent.run with StateTrackingMiddleware registered and       *)
(* reset_stats() called between two steps                                  *)

StatsChains ==
    { <<"StateTracking">>,
      <<"StateTracking", "RejectClickBeforeExecution">>,
      <<"RejectFirstAfterDecision", "StateTracking">> }

StatsConfigs ==
    { [middlewares |-> names, max_iterations |-> n, max_history |-> MaxHist,
       track_duration |-> TRUE, click_delay |-> ClickDelay] :
        names \in StatsChains, n \in 1..MaxIter }

InitStats == Start(StatsConfigs)

\* The replies of the language model in these runs
StatsReplies ==
    { Fenced("dict", <<Click>>), Fenced("list", <<Click, Click>>),
      NestedList, Fenced("list", <<Click, Stop("done")>>),
      Fenced("dict", <<Unhashable>>) }

StepBeginStats == Step(StatsReplies)

\* StateTrackingMiddleware.reset_stats, called on a registered instance
\* before a step
ResetStats ==
    /\ pc = "step"
    /\ \E i \in DOMAIN middlewares :
          /\ middlewares[i].kind = "StateTracking"
          /\ middlewares[i].stats # NoStats
          /\ middlewares' = [middlewares EXCEPT ![i].stats = NoStats]
    /\ UNCHANGED <<call, agentVars>>

NextStats ==
    \/ RunStart
    \/ LoopHead
    \/ StepBeginStats
    \/ StepElement
    \/ StepEnd
    \/ LoopCheck
    \/ Interrupt
    \/ Finish
    \/ ResetStats

SpecStats == InitStats /\ [][NextStats]_vars

CountLeq(c, d) ==
    c.total <= d.total /\ c.success <= d.success /\ c.fail <= d.fail

StatsLeq(s, t) ==
    /\ s.total_actions <= t.total_actions
    /\ s.successful_actions <= t.successful_actions
    /\ s.failed_actions <= t.failed_actions
    /\ \A type \in StatTypes :
          CountLeq(s.action_types[type], t.action_types[type])

\* C26: the counters of StateTrackingMiddleware (total, successful and
\* failed actions, and total, success and fail of every action type) never
\* decrease in a step of a run that is not a call of reset_stats().
C26_StatsMonotone ==
    [][ResetStats \/
       \A i \in DOMAIN middlewares \cap DOMAIN middlewares' :
          StatsLeq(middlewares[i].stats, middlewares'[i].stats)]_vars

\* The statistics were reset (they count fewer actions than the middleware
\* has recorded) and have since counted a successful and a failed action
C26_Witness ==
    \E i \in DOMAIN middlewares :
        /\ middlewares[i].kind = "StateTracking"
        /\ Len(SelectSeq(appended, LAMBDA e : e.kind = "record"))
              > middlewares[i].stats.total_actions
        /\ middlewares[i].stats.total_actions >= 2
        /\ middlewares[i].stats.failed_actions >= 1
        /\ middlewares[i].stats.action_types["click"].success >= 1

-----------------------------------------------------------------------------
(* SpecAudit: UIAgent.run with ScreenshotLoggerMiddleware registered and a  *)
(* file system that starts to refuse the writes                            *)

AuditChains ==
    { <<"ScreenshotLogger">>, <<"ScreenshotLogger", "StateTracking">>,
      <<"StateTracking", "ScreenshotLogger">> }

AuditConfigs ==
    { [middlewares |-> names, max_iterations |-> n, max_history |-> MaxHist,
       track_duration |-> TRUE, click_delay |-> ClickDelay] :
        names \in AuditChains, n \in 1..MaxIter }

InitAudit == Start(AuditConfigs)

\* The replies of the language model in these runs
AuditReplies ==
    { Fenced("dict", <<Click>>), Fenced("list", <<Click, Click>>),
      Fenced("dict", <<Stop("done")>>) }

StepBeginAudit == Step(AuditReplies)

\* The file system starts to refuse the writes of a registered
\* ScreenshotLoggerMiddleware (the disk is full, the directory is removed)
WritesStartFailing ==
    /\ pc \in {"step", "element"}
    /\ \E i \in DOMAIN middlewares :
          /\ middlewares[i].kind = "ScreenshotLogger"
          /\ ~middlewares[i].writes_fail
          /\ middlewares' = [middlewares EXCEPT ![i].writes_fail = TRUE]
    /\ UNCHANGED <<call, agentVars>>

NextAudit ==
    \/ RunStart
    \/ LoopHead
    \/ StepBeginAudit
    \/ StepElement
    \/ StepEnd
    \/ LoopCheck
    \/ Interrupt
    \/ Finish
    \/ WritesStartFailing

SpecAudit == InitAudit /\ [][NextAudit]_vars

\* the pass of an element of the action loop
ElementPass ==
    /\ pc = "element"
    /\ Len(events') > Len(events)
    /\ events'[Len(events')].ev # "interrupt"

\* the events of the pass
PassEvents == SubSeq(events', Len(events) + 1, Len(events'))

\* the pass went to the end of the loop body: the entry was appended
Appended == events'[Len(events')].ev = "append"

\* C27: no exception leaves ScreenshotLoggerMiddleware when its writes
\* fail; the element it was given is passed on as it is (the marks of the
\* other middlewares apart), executed, and recorded in the history with its
\* result, and the state is returned unchanged.
C27_AuditFailuresContained ==
    [][/\ \A i \in DOMAIN middlewares' : ~middlewares'[i].escaped
       /\ ElementPass =>
            LET act == actions[idx]
                last == events'[Len(events')]
                item == appended'[Len(appended')]
            IN /\ state' = state
               /\ Appended \/ (last.ev = "execute" /\ last.info = "raise")
               /\ act.type # "stop" =>
                     \E k \in DOMAIN PassEvents : PassEvents[k].ev = "execute"
               /\ Appended =>
                     /\ item.kind = "item"
                     /\ item.action = act
                     /\ act.type # "stop" =>
                           \E k \in DOMAIN PassEvents :
                              /\ PassEvents[k].ev = "execute"
                              /\ item.result =
                                    ExecResult(PassEvents[k].info = "ok")]_vars

\* the screenshot of the step was saved, then the writes of the analysis
\* and of the result file failed, and the click is in the history
C27_Witness ==
    /\ \E i \in DOMAIN middlewares :
          /\ middlewares[i].kind = "ScreenshotLogger"
          /\ "screenshot" \in middlewares[i].written
          /\ {"analysis", "result"} \subseteq middlewares[i].failed
    /\ appended # <<>>
    /\ appended[Len(appended)].kind = "item"
    /\ appended[Len(appended)].action.type = "click"
    /\ appended[Len(appended)].result.success

-----------------------------------------------------------------------------
(* The order of the phases of a step                                       *)

\* The phases and collaborator calls of step(), in the order of its code
PhaseOrder ==
    <<"before_perception", "perceive", "after_perception", "before_decision",
      "decide", "after_decision", "before_execution", "execute",
      "after_execution", "append">>

Rank(ev) == CHOOSE r \in DOMAIN PhaseOrder : PhaseOrder[r] = ev

\* the event ends the processing of its element without a history entry:
\* a rejection (`continue`) or an exception of the executor
Abandons(e) ==
    \/ e.ev \in {"after_decision", "before_execution"} /\ e.info = "None"
    \/ e.ev = "execute" /\ e.info = "raise"

\* event f may directly follow event e
Follows(e, f) ==
    IF f.iter # e.iter
    THEN \* the next step starts after the step has returned and run()
         \* has slept
         /\ f.iter = e.iter + 1
         /\ f.ev = "before_perception"
         /\ e.ev = "sleep"
    ELSE IF f.ev = "sleep"
    THEN \* run() sleeps after the step has returned
         e.ev \in {"perceive", "append"} \/ Abandons(e)
    ELSE IF f.idx # e.idx
    THEN \* the next element starts after the element is done
         /\ f.idx = e.idx + 1
         /\ f.ev = "after_decision"
         /\ e.ev \in {"decide", "append"} \/ Abandons(e)
    ELSE \* within the step head or an element: the next phase of the order,
         \* or after_execution at once for a stop
         /\ ~Abandons(e)
         /\ \/ Rank(f.ev) = Rank(e.ev) + 1
            \/ e.ev = "after_decision" /\ f.ev = "after_execution"

\* the events a transition adds to the trace
NewEvents == (Len(events) + 1)..Len(events')

\* C28: the events of every step occur in the order before_perception,
\* Perception.process, after_perception, before_decision, Brain.decide and
\* then, element by element, after_decision, before_execution,
\* Executor.execute, after_execution, history append; an element is done
\* (appended, rejected or failed) before after_decision of the next one,
\* and a step is done before the next one starts.
C28_PhaseOrder ==
    [][\A n \in NewEvents :
          LET f == events'[n]
          IN f.ev # "interrupt" =>
                /\ f.ev # "sleep" =>
                      /\ \E r \in DOMAIN PhaseOrder : PhaseOrder[r] = f.ev
                      /\ f.idx = 0 <=> Rank(f.ev) <= 5
                /\ IF n = 1
                   THEN f.ev = "before_perception" /\ f.iter = 1
                   ELSE Follows(events'[n - 1], f)]_vars

\* C28 witness: a step went through its head and through the five events
\* of each of two elements
C28_Witness ==
    \E n \in EvIdx :
       /\ n + 14 = Len(events)
       /\ \A r \in 1..5 : events[n + r - 1].ev = PhaseOrder[r]
                          /\ events[n + r - 1].idx = 0
       /\ \A i \in 1..2, r \in 6..10 :
             /\ events[n + 5 * i + r - 6].ev = PhaseOrder[r]
             /\ events[n + 5 * i + r - 6].idx = i

-----------------------------------------------------------------------------
(* The stop path                                                           *)

\* the entries of the history that step() appended, in order
Items == SelectSeq(appended, LAMBDA h : h.kind = "item")

-----------------------------------------------------------------------------
(* The scratch key of StateTrackingMiddleware                              *)

\* C30: when step() has returned, the key "_current_action" that
\* StateTrackingMiddleware wrote at after_decision is not in the context.
\* The step is one whose last element was executed or was a stop (its
\* entry was appended) or was rejected at before_execution.
C30_ScratchKeyCleaned ==
    ( /\ pc = "check"
      /\ events # <<>>
      /\ LET last == events[Len(events)]
         IN \/ last.ev = "append"
            \/ last.ev = "before_execution" /\ last.info = "None" )
    => ~context.cur.present

-----------------------------------------------------------------------------
(* SpecRuns: run() called again and again on one agent                     *)

RunsChains == { <<>>, <<"StateTracking">> }

\* every run is one step long: the runs differ by what the step does
RunsConfigs ==
    { [middlewares |-> names, max_iterations |-> 1, max_history |-> MaxHist,
       track_duration |-> TRUE, click_delay |-> ClickDelay] :
        names \in RunsChains }

InitRuns == Start(RunsConfigs)

\* The replies of the language model in these runs
RunsReplies ==
    { Fenced("dict", <<Click>>), Fenced("list", <<Click, Click>>),
      Fenced("dict", <<Stop("done")>>) }

StepBeginRuns == Step(RunsReplies)

\* run() has returned and the driver calls it again on the same agent
RunAgain ==
    /\ pc = "done"
    /\ Len(heap.returned) < MaxRuns
    /\ pc' = "idle"
    /\ exit' = NoExit
    /\ UNCHANGED <<middlewares, call, now, execs, ic, prompt, config, context,
                   running, iteration, state, actions, idx, final_result,
                   stop, summary, events, decided, appended, heap>>

NextRuns ==
    \/ RunStart
    \/ LoopHead
    \/ StepBeginRuns
    \/ StepElement
    \/ StepEnd
    \/ LoopCheck
    \/ Interrupt
    \/ Finish
    \/ RunAgain

SpecRuns == InitRuns /\ [][NextRuns]_vars

\* the entries appended to the history since the current run started
AppendedInRun == SubSeq(appended, heap.base + 1, Len(appended))

\* sequence s is the end of sequence t
IsEndOf(s, t) ==
    /\ Len(s) <= Len(t)
    /\ s = SubSeq(t, Len(t) - Len(s) + 1, Len(t))

\* C31: every run() starts with an empty history and iteration 0, the
\* history of a run holds entries appended in that run only, and the list
\* an earlier run returned still holds what it held at the return.
C31_RunsIsolated ==
    [][/\ (pc = "idle" /\ pc' = "loop") =>
             /\ context'.history = <<>>
             /\ context'.iteration = 0
             /\ iteration' = 0
       /\ pc' \notin {"idle", "raised"} =>
             IsEndOf(context'.history, AppendedInRun')
       /\ \A r \in DOMAIN heap'.returned :
             LET ret == heap'.returned[r]
             IN /\ heap'.lists[ret.list] = ret.history
                /\ \A q \in DOMAIN heap'.returned :
                      q # r => heap'.returned[q].list # ret.list]_vars

\* C31 witness: a second run on the agent is under way and has appended
\* to its history, after a first run that returned a history with entries
C31_Witness ==
    /\ Len(heap.returned) = 1
    /\ heap.returned[1].history # <<>>
    /\ Len(heap.lists) = 2
    /\ pc = "check"
    /\ context.history # <<>>
    /\ context.history # heap.returned[1].history

-----------------------------------------------------------------------------
(* The flag `running`                                                      *)

\* run() is inside its loop: in step() or between two steps
InLoop == pc \in {"loop", "step", "element", "check"}

\* C32: running is false before run() and whenever run() has returned or
\* raised, it becomes true once in a run, at its start, and false again in
\* stop() when the loop is left, and step() runs only while it is true.
C32_RunningFlag ==
    [][/\ pc \in {"idle", "done", "raised"} => ~running
       /\ pc \in {"step", "element"} => running
       /\ (~running /\ running') => (pc = "idle" /\ pc' = "loop")
       /\ (running /\ ~running') => (pc = "finally" /\ pc' = "done")
       /\ (InLoop /\ ~InLoop') => (pc' = "finally" /\ running')
       /\ pc' = "done" => ~running']_vars

\* C32 witness: the second run on the agent has set the flag again, after
\* the first one returned with the flag false
C32_Witness ==
    /\ Len(heap.returned) = 1
    /\ pc = "step"
    /\ running

-----------------------------------------------------------------------------
(* The count of the iterations and the sleep between them                  *)

\* the steps of the run that were invoked: an iteration with an event
StepsInvoked == {events[n].iter : n \in EvIdx}

\* the sleeps of the run
Sleeps == {n \in EvIdx : events[n].ev = "sleep"}

-----------------------------------------------------------------------------
(* Registration in the manager (checked under SpecMgr)                     *)

\* the position of the middleware object `id` in chain mws
PosOf(mws, id) == CHOOSE i \in DOMAIN mws : mws[i].id = id

\* C34: remove(kind) leaves no instance of the kind and leaves every other
\* middleware registered, in the order they were in; add() of an object
\* that is not a Middleware raises and leaves the list as it was, and add()
\* of a Middleware puts it at the end.
C34_Registration ==
    /\ call.phase = "remove" =>
          LET old == call.chain
              new == middlewares
          IN /\ ~call.out.raised
             /\ \A j \in DOMAIN new : new[j].kind # call.arg
             /\ \A j \in DOMAIN new : \E i \in DOMAIN old : new[j] = old[i]
             /\ \A i \in DOMAIN old :
                   old[i].kind # call.arg => \E j \in DOMAIN new : new[j] = old[i]
             /\ \A j, k \in DOMAIN new :
                   j < k => PosOf(old, new[j].id) < PosOf(old, new[k].id)
    /\ call.phase = "add" =>
          IF call.arg \in {"Base", "Mark", "Raise", "Reject"}
          THEN /\ ~call.out.raised
               /\ Len(middlewares) = Len(call.chain) + 1
               /\ SubSeq(middlewares, 1, Len(call.chain)) = call.chain
               /\ middlewares[Len(middlewares)].kind = call.arg
          ELSE /\ call.out.raised
               /\ middlewares = call.chain

\* C34 witness: remove took two instances of a class out of a chain of
\* three and left the third middleware
C34_Witness ==
    /\ call.phase = "remove"
    /\ Len(call.chain) = 3
    /\ Len(middlewares) = 1
    /\ call.chain[2] = middlewares[1]

\* C34 witness of the refused add: an object that is not a Middleware was
\* passed to a manager that holds middlewares
C34_WitnessAdd ==
    /\ call.phase = "add"
    /\ call.out.raised
    /\ middlewares # <<>>

-----------------------------------------------------------------------------
(* SpecFail: UIAgent.run with a Perception and a Brain that may raise      *)

FailChains == { <<>>, <<"StateTracking">>, <<"Mark">> }

FailConfigs ==
    { [middlewares |-> names, max_iterations |-> n, max_history |-> MaxHist,
       track_duration |-> TRUE, click_delay |-> ClickDelay] :
        names \in FailChains, n \in 1..MaxIter }

InitFail == Start(FailConfigs)

\* The replies in these runs: a click, a stop, and an exception
FailReplies ==
    { Fenced("dict", <<Click>>), Fenced("dict", <<Stop("done")>>), Escaping }

StepBeginFail == Step(FailReplies)

NextFail ==
    \/ RunStart
    \/ LoopHead
    \/ StepBeginFail
    \/ StepElement
    \/ StepEnd
    \/ LoopCheck
    \/ Interrupt
    \/ Finish

SpecFail == InitFail /\ [][NextFail]_vars

\* the last event is an exception of Perception.process or Brain.decide
LastRaised(evs) ==
    /\ evs # <<>>
    /\ evs[Len(evs)].ev \in {"perceive", "decide"}
    /\ evs[Len(evs)].info = "raise"

\* C35: when Perception.process or Brain.decide raises, step() returns
\* false at once and appends nothing to the history, and run() goes on
\* with the next iteration unless max_iterations is reached.
C35_StepSwallowsFailure ==
    [][/\ (pc = "step" /\ pc' # "finally" /\ LastRaised(events')) =>
             /\ pc' = "check"
             /\ ~stop'
             /\ appended' = appended
             /\ context'.history = context.history
       /\ (pc = "step" /\ pc' = "check") => LastRaised(events')
       /\ (pc = "check" /\ LastRaised(events)) =>
             IF iteration >= config.max_iterations
             THEN pc' = "finally" /\ exit'.why = "limit"
             ELSE pc' = "loop" /\ running']_vars

\* C35 witness: the first step failed in Brain.decide, and the second step
\* of the run executed a click and recorded it
C35_Witness ==
    /\ \E n \in EvIdx :
          /\ events[n].iter = 1
          /\ events[n].ev = "decide"
          /\ events[n].info = "raise"
    /\ \E n \in EvIdx : events[n].iter = 2 /\ events[n].ev = "append"
    /\ Len(context.history) >= 1

-----------------------------------------------------------------------------
(* An element of the sequence that fails                                   *)

\* the executor raised in the pass of the element
ExecutorRaised ==
    /\ ElementPass
    /\ events'[Len(events')].ev = "execute"
    /\ events'[Len(events')].info = "raise"

\* C36: when Executor.execute raises for an element of the sequence, no
\* entry is appended to the history for it, and the loop goes on with the
\* next element: the elements after it are processed, in order.
C36_ElementIsolation ==
    [][/\ \A n \in NewEvents :
             (events'[n].ev = "execute" /\ events'[n].info = "raise") =>
                n = Len(events')
       /\ ExecutorRaised =>
             /\ appended' = appended
             /\ context'.history = context.history
             /\ pc' = "element"
             /\ idx' = idx + 1
             /\ actions' = actions
       /\ (pc = "element" /\ idx <= Len(actions) /\ NewEvents # {}
           /\ pc' # "finally") =>
             /\ events'[Len(events) + 1].ev = "after_decision"
             /\ events'[Len(events) + 1].idx = idx
             /\ events'[Len(events) + 1].iter = iteration]_vars

\* C36 witness: the executor raised for the first element of a list of
\* two, and the second element was executed and recorded
C36_Witness ==
    \E n \in EvIdx :
       /\ events[n].ev = "execute"
       /\ events[n].info = "raise"
       /\ events[n].idx = 1
       /\ n + 5 = Len(events)
       /\ events[n + 1].ev = "after_decision"
       /\ events[n + 1].idx = 2
       /\ events[n + 3].ev = "execute"
       /\ events[n + 3].info = "ok"
       /\ events[n + 5].ev = "append"
       /\ Len(Items) = 1

-----------------------------------------------------------------------------
(* The consistency of the statistics                                       *)

RECURSIVE SumTotals(_, _)
SumTotals(types, S) ==
    IF S = {} THEN 0
    ELSE LET t == CHOOSE t \in S : TRUE
         IN types[t].total + SumTotals(types, S \ {t})

\* C37: in the statistics of StateTrackingMiddleware total_actions is
\* successful_actions + failed_actions and the sum of the totals of the
\* types, and for every type total is success + fail.
C37_StatsConsistent ==
    \A i \in DOMAIN middlewares :
       middlewares[i].kind = "StateTracking" =>
          LET st == middlewares[i].stats
          IN /\ st.total_actions = st.successful_actions + st.failed_actions
             /\ st.total_actions = SumTotals(st.action_types, StatTypes)
             /\ \A t \in StatTypes :
                   st.action_types[t].total
                      = st.action_types[t].success + st.action_types[t].fail

-----------------------------------------------------------------------------
(* The sub-actions of a list (checked under SpecInput)                     *)

\* the sub-actions for which execute() reaches a pyautogui call
Dispatched(items) ==
    SelectSeq(items, LAMBDA a : a.type \in {"click", "type"} /\ validate(a))

\* the pyautogui function that is called for them
OsCall(type) == IF type = "click" THEN "click" ELSE "typewrite"

\* C38: execute() on a list dispatches every valid sub-action, in the order
\* of the list, whether or not an earlier one failed or was invalid, and
\* returns false when one of them failed.
C38_ListAttemptsAll ==
    (ic.phase = "executed" /\ ic.action.type = "list")
        => /\ Len(ic.os) = Len(Dispatched(ic.action.items))
           /\ \A j \in DOMAIN ic.os :
                 ic.os[j] = OsCall(Dispatched(ic.action.items)[j].type)
           /\ (\E i \in DOMAIN ic.sub : ~ic.sub[i]) => ~ic.result
           /\ ~ic.raised

\* C38 witness: the click at the head of the list failed, and the text of
\* the second sub-action was typed all the same
C38_Witness ==
    /\ ic.phase = "executed"
    /\ ic.action.type = "list"
    /\ ic.outcomes = <<"raise", "ok">>
    /\ ic.sub = <<FALSE, TRUE>>
    /\ ic.os = <<"click", "typewrite">>
    /\ ~ic.result

-----------------------------------------------------------------------------
(* SpecBuiltin: UIAgent.run with built-in middlewares only                 *)

\* The chain of config.py, the same chain reversed, and two shorter ones
BuiltinChains ==
    { <<"Logging", "Throttling", "StateTracking", "ScreenshotLogger">>,
      <<"ScreenshotLogger", "StateTracking", "Throttling", "Logging">>,
      <<"Throttling", "Logging">>,
      <<"Logging">> }

BuiltinConfigs ==
    { [middlewares |-> names, max_iterations |-> n, max_history |-> MaxHist,
       track_duration |-> TRUE, click_delay |-> ClickDelay] :
        names \in BuiltinChains, n \in 1..MaxIter }

InitBuiltin == Start(BuiltinConfigs)

\* The replies in these runs: a click, a stop, a dict whose type is a JSON
\* array, a list with an element that is itself a list, and a list with a
\* stop between two clicks
BuiltinReplies ==
    { Fenced("dict", <<Click>>), Fenced("dict", <<Stop("done")>>),
      Fenced("dict", <<Unhashable>>), NestedList,
      Fenced("list", <<Click, Stop("done")>>) }

StepBeginBuiltin == Step(BuiltinReplies)

NextBuiltin ==
    \/ RunStart
    \/ LoopHead
    \/ StepBeginBuiltin
    \/ StepElement
    \/ StepEnd
    \/ LoopCheck
    \/ Interrupt
    \/ Finish
    \/ WritesStartFailing

SpecBuiltin == InitBuiltin /\ [][NextBuiltin]_vars

====
